------------------------------ MODULE Launcher ------------------------------
(***************************************************************************)
(* The launcher's commands on its data directory: `fetch` fills the asset  *)
(* store, `auth` keeps the accounts (crates/oxide-launcher/src/main.rs);   *)
(* the client reads both when it starts.  They share the directory but no  *)
(* file, so a behaviour uses one of the two (bound).                       *)
(***************************************************************************)
EXTENDS AssetStore, Accounts

VARIABLE part \* the part this behaviour uses: "fetch" or "auth"

vars == <<storeVars, accountVars, part>>

Init == StoreInit /\ AccountsInit /\ part \in {"fetch", "auth"}

Fetch == part = "fetch" /\ StoreNext /\ UNCHANGED <<accountVars, part>>
Auth  == part = "auth" /\ AccountsNext /\ UNCHANGED <<storeVars, part>>

Next == Fetch \/ Auth

Goes(p) ==
  \/ Step(p) /\ UNCHANGED <<guard, accountVars, part>>
  \/ CommandStep(p) /\ UNCHANGED <<storeVars, part>>

\* A process that runs goes on: every request has a timeout, and no step waits
\* for another process.
Spec == Init /\ [][Next]_vars /\ \A p \in Runs \cup Processes : WF_vars(Goes(p))
=============================================================================
