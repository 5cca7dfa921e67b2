----------------------------- MODULE SkinWorker -----------------------------
(***************************************************************************)
(* The skins of the player list                                            *)
(* (crates/oxide-client/src/skin_worker.rs, main.rs).                      *)
(*                                                                         *)
(* A report of the player list becomes one request for every entry that    *)
(* carries a property; the session's worker answers each with one update,  *)
(* unless the last property it saw of that player was the same; a frame    *)
(* files the updates that have come.  The player's own skin is fetched     *)
(* once more, over the profile, by a thread of its own.  Textures, capes   *)
(* and models are left out: an update says what it is of, and whether the  *)
(* fetch got it.                                                           *)
(***************************************************************************)
EXTENDS Integers, Sequences, SequencesExt

CONSTANTS Players,     \* the players of the list, in its order
          Me,          \* the client's own player
          Properties,  \* the properties an entry may carry
          HasAccount   \* whether the client is signed in

ASSUME PlayersAssumption == Players \in Seq(ToSet(Players)) /\ HasAccount \in BOOLEAN

VARIABLES
  reported, \* the property each player's entry carried in the last report
  worker,   \* the session's skin worker and its channels
  own,      \* the thread that fetches the own skin, and its channel
  skins     \* what the client has filed for each player

skinVars == <<reported, worker, own, skins>>

Listed == ToSet(Players)
Plain == "plain"                               \* no entry, or one with no property
Default == [of |-> Plain, got |-> FALSE]       \* nothing filed
NewWorker ==
  [requests |-> <<>>, seen |-> [p \in Listed |-> {}], updates |-> <<>>]
NoFetch == [out |-> FALSE, updates |-> <<>>]

SkinsInit ==
  /\ reported = [p \in Listed |-> Plain]
  /\ worker = NewWorker
  /\ own = NoFetch
  /\ skins = [p \in Listed |-> Default]

SkinsGone ==
  /\ reported' = [p \in Listed |-> Plain]
  /\ worker' = NewWorker
  /\ own' = NoFetch
  /\ skins' = [p \in Listed |-> Default]
-----------------------------------------------------------------------------
\* A join starts a worker of its own; what is filed stays.
StartWorker ==
  /\ reported' = [p \in Listed |-> Plain]
  /\ worker' = NewWorker
  /\ UNCHANGED <<own, skins>>

\* The login's answer starts the own fetch and drops the channel of an older one.
StartOwnFetch ==
  /\ own' = IF HasAccount THEN [NoFetch EXCEPT !.out = TRUE] ELSE own
  /\ UNCHANGED <<reported, worker, skins>>

\* One request for every entry with a property, in the list's order.
Requests(entries) ==
  LET asked[n \in 0 .. Len(Players)] ==
        IF n = 0 THEN <<>>
        ELSE IF entries[Players[n]] = Plain THEN asked[n - 1]
        ELSE Append(asked[n - 1],
                    [player |-> Players[n], property |-> entries[Players[n]]])
  IN  asked[Len(Players)]

\* The list changed in the entry of p.
Report(p, property) ==
  /\ reported[p] # property
  /\ reported' = [reported EXCEPT ![p] = property]
  /\ worker' = [worker EXCEPT !.requests = @ \o Requests(reported')]
  /\ UNCHANGED <<own, skins>>

\* Mutant of Remember: a player is processed once, whatever the property.
RememberPlayer(request) == Properties

\* Only the last property of a player is remembered.
Remember(request) == {request.property}

\* The worker takes a request; the fetch of what it names succeeds or fails.
Work ==
  /\ worker.requests # <<>>
  /\ LET request == Head(worker.requests)
         p == request.player
         taken == [worker EXCEPT !.requests = Tail(@), !.seen[p] = Remember(request)]
     IN  IF request.property \in worker.seen[p] THEN worker' = taken
         ELSE \E got \in BOOLEAN :
           worker' = [taken EXCEPT !.updates =
             Append(@, [player |-> p, of |-> request.property, got |-> got])]
  /\ UNCHANGED <<reported, own, skins>>

\* The own fetch ends: with the profile's skin, or with nothing to send.
FetchOwn ==
  /\ own.out
  /\ own' \in {NoFetch,
               [out |-> FALSE,
                updates |-> <<[player |-> Me, of |-> "profile", got |-> TRUE]>>]}
  /\ UNCHANGED <<reported, worker, skins>>

\* The last update of a player, if there is one.
Latest(updates, p) == SelectLastInSeq(updates, LAMBDA update : update.player = p)

\* The updates are filed in their order.
File(filed, updates) ==
  [p \in Listed |->
     IF Latest(updates, p) = 0 THEN filed[p]
     ELSE [of |-> updates[Latest(updates, p)].of, got |-> updates[Latest(updates, p)].got]]

\* A frame files the worker's updates, then the own fetch's.
DrainSkins ==
  /\ skins' = File(skins, worker.updates \o own.updates)
  /\ worker' = [worker EXCEPT !.updates = <<>>]
  /\ own' = [own EXCEPT !.updates = <<>>]
  /\ UNCHANGED reported
-----------------------------------------------------------------------------
(* Properties.                                                             *)

Quiet == worker.requests = <<>> /\ worker.updates = <<>> /\ own.updates = <<>>

\* Whatever order the list changed in while fetches were out, a player whose
\* entry carries a property ends up with that property's skin filed, or, for
\* the own player, with the profile's.
SkinsSettle ==
  Quiet => \A p \in Listed :
    reported[p] # Plain =>
      skins[p].of \in {reported[p]} \cup (IF p = Me /\ HasAccount THEN {"profile"} ELSE {})

\* An entry without a property wears the default.
PlainShowsDefault == Quiet => \A p \in Listed : reported[p] = Plain => ~skins[p].got

\* The own skin that was fetched stands: only another that was fetched takes
\* its place.
OwnSkinStands == [][skins[Me].of = "profile" => skins'[Me].got]_skins
=============================================================================
