----------------------------- MODULE MCMigrate -----------------------------
(* Binaries that embed one, two and three migrations, and a development    *)
(* build in which the text of the second has been edited.                  *)
EXTENDS Migrate, TLC

CONSTANTS old, current, next, dev, text, edited

MCKnown == (old     :> <<text>>) @@ (current :> <<text, text>>)
        @@ (next    :> <<text, text, text>>) @@ (dev :> <<text, edited>>)
=============================================================================
