-------------------------- MODULE MCNotifications --------------------------
(***************************************************************************)
(* Small instances of Notifications: messages of the kinds that the code   *)
(* treats differently, one or two dispatchers.                             *)
(***************************************************************************)
EXTENDS Notifications, TLC

CONSTANTS prompt, notice, d1, d2

MCMessages == {prompt, notice}
MCKind == (prompt :> "urgent") @@ (notice :> "plain")
MCEntry == [m \in MCMessages |-> "queued"]

\* The same message under two dispatchers.
OneMessage == {prompt}
OneKind == prompt :> "urgent"
OneEntry == prompt :> "queued"
=============================================================================
