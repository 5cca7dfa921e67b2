------------------------------ MODULE Accounts ------------------------------
(***************************************************************************)
(* The account store and the processes that use it: the records of the     *)
(* signed-in accounts in accounts.json, their refresh tokens in the        *)
(* keyring (crates/oxide-assets/src/accounts.rs); the launcher signs in,   *)
(* lists and signs out (crates/oxide-launcher/src/auth.rs), the client     *)
(* starts as a stored account (crates/oxide-client/src/accounts.rs), over  *)
(* the sign-in chain (crates/oxide-assets/src/auth.rs).                    *)
(*                                                                         *)
(* Nothing locks the store.  A sign-in writes the secret half, then reads  *)
(* the file and writes it whole; a sign-out likewise; a file that does not *)
(* parse is moved to its backup by whoever reads it.  Processes interleave *)
(* between those steps, and each step may fail or be the last before a     *)
(* kill.  An account is its id, and has a name of its own; the texts of    *)
(* errors are left out.                                                    *)
(***************************************************************************)
EXTENDS Integers, FiniteSets

CONSTANTS
  Processes, Ids,
  Commands,  \* the commands a process may be given, with the account each is about
  Intervals, \* the polling intervals the service may ask for
  Bump,      \* what a slow_down adds (SLOW_DOWN_BUMP_SECS)
  Window,    \* the lifetime of a device code (expires_in)
  MaxFaults  \* errors, kills, files gone bad (bound)

ASSUME CommandsAssumption ==
  \A p \in Processes : \A c \in Commands[p] :
    \/ c[1] \in {"in", "out", "start", "named"} /\ c[2] \in Ids
    \/ c = <<"status", "none">>
ASSUME PollAssumption == Intervals \subseteq Nat \ {0} /\ {Bump, Window} \subseteq Nat

VARIABLES
  file,    \* accounts.json: missing, good or bad (it does not parse), and its accounts
  backup,  \* accounts.json.bak: missing, or what the file moved there was
  secrets, \* the accounts whose refresh token the keyring holds
  command, \* the processes
  said,    \* history: the accounts the launcher last said are signed in
  apart,   \* history: those whose halves a failure or an overlap may have parted
  faults   \* faults so far (bound)

accountVars == <<file, backup, secrets, command, said, apart, faults>>

\* look: what the file is read for.  A query is first tried as an id, then as a
\* name; "load" is the read of a save or a remove.  base: the accounts it read.
NoCommand == [kind |-> "none", id |-> "none", pc |-> "idle", look |-> "none", base |-> {},
              interval |-> 0, waited |-> 0, clashed |-> FALSE]

Missing == [is |-> "missing", ids |-> {}]

\* A store nobody has signed in to.
AccountsInit ==
  /\ file = Missing /\ backup = "missing" /\ secrets = {}
  /\ command = [p \in Processes |-> NoCommand]
  /\ said = {} /\ apart = {} /\ faults = 0
-----------------------------------------------------------------------------
Becomes(p, next) == command' = [command EXCEPT ![p] = next]
GoesTo(p, pc)    == Becomes(p, [command[p] EXCEPT !.pc = pc])
Over(p)          == Becomes(p, NoCommand)
Stored           == <<file, backup, secrets>>

\* Between its two halves: the secret is written or deleted, the record not yet.
Between(p) == command[p].look = "load"

Quietly == UNCHANGED <<said, apart, faults>>
-----------------------------------------------------------------------------
(* The launcher's sign-in: device code, polls, chain, then the store.      *)

\* run_sign_in, begin_device_code.
SignIn(p) ==
  /\ command[p].pc = "idle"
  /\ \E c \in Commands[p] : c[1] = "in"
  /\ \E interval \in Intervals :
        Becomes(p, [NoCommand EXCEPT !.kind = "in", !.pc = "poll", !.interval = interval])
  /\ UNCHANGED Stored /\ Quietly

\* The next wait would outlast the code.
Overruns(waited, interval) == waited + interval > Window

\* MUTANT of Poll: the waits are not added up.
PollUncounted(p, slow) ==
  /\ command[p].pc = "poll"
  /\ IF Overruns(command[p].waited, command[p].interval) THEN Over(p) ELSE Becomes(p, command[p])
  /\ UNCHANGED Stored /\ Quietly

\* poll_token: the user has not approved yet; slow: and a slow_down is asked for.
Poll(p, slow) ==
  /\ command[p].pc = "poll"
  /\ LET interval == command[p].interval + IF slow THEN Bump ELSE 0
     IN  IF Overruns(command[p].waited, interval) THEN Over(p)
         ELSE Becomes(p, [command[p] EXCEPT !.interval = interval, !.waited = @ + interval])
  /\ UNCHANGED Stored /\ Quietly

\* The user approves.
Approved(p) ==
  /\ command[p].pc = "poll"
  /\ Becomes(p, [NoCommand EXCEPT !.kind = "in", !.pc = "chain"])
  /\ UNCHANGED Stored /\ Quietly

\* complete_sign_in: five requests, none of which touches the store; the last says
\* who signs in.  Without a refresh token that is for this process only.
Chain(p) ==
  /\ command[p].pc = "chain"
  /\ \/ /\ command[p].kind = "in"
        /\ \E id \in Ids : /\ <<"in", id>> \in Commands[p]
                           /\ Becomes(p, [command[p] EXCEPT !.id = id, !.pc = "secret"])
     \/ Over(p)
  /\ UNCHANGED Stored /\ Quietly
-----------------------------------------------------------------------------
(* The other commands, up to the read of the file.                         *)

\* run_logout and run_status list; resolve asks for the record, by id ("start")
\* or by name ("named").
Issue(p, kind, id) ==
  /\ command[p].pc = "idle"
  /\ Becomes(p, [NoCommand EXCEPT !.kind = kind, !.id = id, !.pc = "read",
                          !.look = IF kind \in {"start", "named"} THEN "uuid" ELSE "name"])
  /\ UNCHANGED Stored /\ Quietly
-----------------------------------------------------------------------------
(* AccountStore.                                                           *)

HasRecord(id) == file.is = "good" /\ id \in file.ids

\* The others that stand between the halves of this account.
Meets(p) == {q \in Processes \ {p} : Between(q) /\ command[q].id = command[p].id}

\* The secret half is written; the file is read next.
HalfDone(p) ==
  /\ command' = [q \in Processes |->
       IF q = p THEN [command[p] EXCEPT !.pc = "read", !.look = "load", !.clashed = Meets(p) # {}]
       ELSE IF q \in Meets(p) THEN [command[q] EXCEPT !.clashed = TRUE] ELSE command[q]]
  /\ UNCHANGED <<file, backup>> /\ Quietly

\* save: without a keyring (SessionOnly) nothing persists.
SetSecret(p) ==
  /\ command[p].pc = "secret" /\ command[p].kind = "in"
  /\ \/ HalfDone(p) /\ secrets' = secrets \cup {command[p].id}
     \/ Over(p) /\ UNCHANGED Stored /\ Quietly

\* remove.
DeleteSecret(p) ==
  /\ command[p].pc = "secret" /\ command[p].kind = "out"
  /\ HalfDone(p) /\ secrets' = secrets \ {command[p].id}

\* The client reads its refresh token, and goes through the chain with it.
GetSecret(p) ==
  /\ command[p].pc = "secret" /\ command[p].kind \in {"start", "named"}
  /\ IF command[p].id \in secrets
     THEN Becomes(p, [NoCommand EXCEPT !.kind = "start", !.pc = "chain"])
     ELSE Over(p)
  /\ UNCHANGED Stored /\ Quietly

\* The launcher reports the account signed in or out.  A command that met another
\* between the halves vouches for nothing.
Reports(p, parted) ==
  /\ said' = IF command[p].kind = "in" THEN said \cup {command[p].id} ELSE said \ {command[p].id}
  /\ apart' = (apart \ {command[p].id}) \cup parted
              \cup (IF command[p].clashed THEN {command[p].id} ELSE {})

\* What follows a read.  A remove that finds no record has none to write.
Loaded(p, ids, parted) ==
  LET r == command[p]
      found == r.id \in ids
      Kept == apart' = apart \cup parted /\ UNCHANGED said
      Then(pc, look) == /\ Becomes(p, [r EXCEPT !.pc = pc, !.look = look,
                                                 !.base = IF pc = "write" THEN ids ELSE {}])
                        /\ Kept
  IN  CASE r.look = "load" /\ (r.kind = "in" \/ found) -> Then("write", "load")
        [] r.look = "load" /\ r.kind = "out" /\ ~found -> Over(p) /\ Reports(p, parted)
        [] r.look = "uuid" -> IF r.kind = "start" /\ found THEN Then("secret", "none")
                              ELSE Then("read", "name")
        [] r.look = "name" -> IF r.kind \in {"out", "named"} /\ found THEN Then("secret", "none")
                              ELSE Over(p) /\ Kept

\* load: a file that does not parse is moved away before it reads as empty.
Load(p) ==
  /\ command[p].pc = "read"
  /\ IF file.is = "bad" THEN GoesTo(p, "aside") /\ UNCHANGED <<said, apart>>
     ELSE Loaded(p, file.ids, {})
  /\ UNCHANGED <<Stored, faults>>

\* The records of a good file that has taken a bad one's place since it was read.
Unseen == IF file.is = "good" THEN file.ids ELSE {}

\* The rename to the backup takes the file that is there by now.
MoveAside(p) ==
  /\ command[p].pc = "aside"
  /\ IF file.is = "missing" THEN UNCHANGED <<file, backup>>
     ELSE file' = Missing /\ backup' = file.is
  /\ Loaded(p, {}, Unseen)
  /\ UNCHANGED <<secrets, faults>>

\* MUTANT of Write: the file is written with the command's own account alone.
WriteOwn(p) ==
  /\ command[p].pc = "write"
  /\ file' = [is |-> "good", ids |-> IF command[p].kind = "in" THEN {command[p].id} ELSE {}]
  /\ Over(p) /\ Reports(p, {id \in Ids \ {command[p].id} : (id \in command[p].base) # HasRecord(id)})
  /\ UNCHANGED <<backup, secrets, faults>>

\* store: the whole file, from the records that were read, is renamed into place.
\* Accounts that came or went since are put back as they were.
Write(p) ==
  /\ command[p].pc = "write"
  /\ file' = [is |-> "good", ids |-> IF command[p].kind = "in" THEN command[p].base \cup {command[p].id}
                                     ELSE command[p].base \ {command[p].id}]
  /\ Over(p) /\ Reports(p, {id \in Ids \ {command[p].id} : (id \in command[p].base) # HasRecord(id)})
  /\ UNCHANGED <<backup, secrets, faults>>
-----------------------------------------------------------------------------
(* What goes wrong.                                                        *)

Fault == faults < MaxFaults /\ faults' = faults + 1

\* An error ends the command where it stands; so does a kill.
BreaksOff(p) ==
  /\ command[p].pc # "idle" /\ Fault /\ Over(p)
  /\ apart' = IF Between(p) THEN apart \cup {command[p].id} ELSE apart
  /\ UNCHANGED <<Stored, said>>

\* list, record: a file that cannot be read reads as empty.
ListsNothing(p) ==
  /\ command[p].pc = "read" /\ command[p].look # "load" /\ Fault
  /\ Loaded(p, {}, {}) /\ UNCHANGED Stored

\* The backup is best-effort.
StaysInPlace(p) ==
  /\ command[p].pc = "aside" /\ Fault
  /\ Loaded(p, {}, Unseen) /\ UNCHANGED Stored

GoesBad ==
  /\ file.is = "good" /\ Fault
  /\ file' = [file EXCEPT !.is = "bad"] /\ apart' = apart \cup file.ids
  /\ UNCHANGED <<backup, secrets, command, said>>
-----------------------------------------------------------------------------
\* What a command does of itself; the approval is the user's.
CommandStep(p) ==
  \/ Poll(p, FALSE) \/ Poll(p, TRUE) \/ Chain(p)
  \/ SetSecret(p) \/ DeleteSecret(p) \/ GetSecret(p)
  \/ Load(p) \/ MoveAside(p) \/ Write(p)

AccountsNext ==
  \/ \E p \in Processes :
       \/ CommandStep(p) \/ SignIn(p) \/ Approved(p)
       \/ \E c \in Commands[p] : c[1] # "in" /\ Issue(p, c[1], c[2])
       \/ BreaksOff(p) \/ ListsNothing(p) \/ StaysInPlace(p)
  \/ GoesBad
-----------------------------------------------------------------------------
(* Properties.                                                             *)

AccountsTypeOK ==
  /\ file \in [is : {"missing", "good", "bad"}, ids : SUBSET Ids]
  /\ backup \in {"missing", "good", "bad"}
  /\ {secrets, said, apart} \subseteq SUBSET Ids
  /\ faults \in 0 .. MaxFaults

\* An account the launcher has said is signed in has its record and its refresh
\* token, one it has not, or has signed out, has neither: whatever other accounts
\* were signed in and out meanwhile, by other processes too, whatever was cut
\* short or failed before the secret half or after the report, and however often
\* the halves came apart before the launcher spoke of the account again.  Left
\* out are the accounts whose halves an overlap, a failure between them or a bad
\* file has parted since (apart), and those a command is between the halves of.
StandsAsSaid ==
  \A id \in Ids \ apart :
     (\E p \in Processes : Between(p) /\ command[p].id = id)
     \/ ((HasRecord(id) <=> id \in said) /\ (id \in secrets <=> id \in said))

\* A sign-in nobody approves comes to its end too: its waits add up to the
\* lifetime of the code.
PollsEnd == \A p \in Processes : []<>(command[p].pc # "poll")

\* Not so in the code: two runs that never failed leave an account half signed in;
\* the one that wrote last has undone the other's record, not its secret.
HalvesTogether ==
  faults = 0 /\ (\A p \in Processes : command[p] = NoCommand)
    => \A id \in Ids : HasRecord(id) <=> id \in secrets

\* Not so: what lies in the backup is a file that does not parse ("a file that
\* does not parse is renamed beside itself", accounts.rs).  Between the read
\* and the rename another process may have moved it and written a good one.
BackupIsBad == backup # "good"

\* Not so: a sign-out that ran to its end leaves no refresh token ("both halves are
\* removed", launcher auth.rs).  One whose sign-in was cut before the record has no
\* record to be found by.
SignedOutIsGone ==
  [][\A p \in Processes :
       /\ command[p].kind = "out" /\ command'[p] = NoCommand /\ faults' = faults
       /\ \A q \in Processes \ {p} : command[q] = NoCommand
       => command[p].id \notin secrets']_accountVars
=============================================================================
