---------------------------- MODULE MatchPromise ----------------------------
(***************************************************************************)
(* What the server promises its clients, without games, seats or ids.      *)
(* Clients gather in parties.  A party in the lobby grows and shrinks; it  *)
(* becomes a match in one step, and only when all its members have agreed. *)
(* From then on nobody joins it: members leave, and the match ends for all *)
(* that are left at once.                                                  *)
(***************************************************************************)
EXTENDS FiniteSets

CONSTANT Clients

VARIABLES
  lobbies,  \* the parties that wait, disjoint sets of clients
  matches,  \* the parties that play
  agreed    \* the waiting clients all of whose players are ready

vars == <<lobbies, matches, agreed>>

Present == UNION (lobbies \cup matches)

Init == lobbies = {} /\ matches = {} /\ agreed = {}

\* A newcomer opens a lobby or enters one; it has agreed to nothing.
Join(c) ==
  /\ c \notin Present
  /\ \/ lobbies' = lobbies \cup {{c}}
     \/ \E party \in lobbies :
          lobbies' = (lobbies \ {party}) \cup {party \cup {c}}
  /\ UNCHANGED <<matches, agreed>>

\* A client says yes; with that its party may start.
Agree(c) ==
  \E party \in lobbies :
    /\ c \in party
    /\ \/ /\ agreed' = agreed \cup {c}
          /\ UNCHANGED <<lobbies, matches>>
       \/ /\ party \subseteq agreed \cup {c}
          /\ lobbies' = lobbies \ {party}
          /\ matches' = matches \cup {party}
          /\ agreed' = agreed \ party

\* Clients change their mind, or the teams they agreed to change.
Retract(clients) ==
  /\ clients # {}
  /\ agreed' = agreed \ clients
  /\ UNCHANGED <<lobbies, matches>>

Without(parties, c) == {party \ {c} : party \in parties} \ {{}}

Leave(c) ==
  /\ c \in Present
  /\ lobbies' = Without(lobbies, c)
  /\ matches' = Without(matches, c)
  /\ agreed' = agreed \ {c}

Finish(parties) ==
  /\ parties # {}
  /\ matches' = matches \ parties
  /\ UNCHANGED <<lobbies, agreed>>

Next ==
  \/ \E c \in Clients : Join(c) \/ Agree(c) \/ Leave(c)
  \/ \E clients \in SUBSET Clients : Retract(clients)
  \/ \E parties \in SUBSET matches : Finish(parties)

Spec == Init /\ [][Next]_vars

-----------------------------------------------------------------------------
(* Consequences of the promise. *)

TypeOK ==
  /\ lobbies \subseteq SUBSET Clients
  /\ matches \subseteq SUBSET Clients
  /\ agreed \subseteq Clients

\* No client waits or plays in two places, and no party is empty.
OnePartyEach ==
  /\ {} \notin lobbies \cup matches
  /\ lobbies \cap matches = {}
  /\ \A p, q \in lobbies \cup matches : p # q => p \cap q = {}

\* Whoever has agreed is waiting in a lobby.
AgreedWait == agreed \subseteq UNION lobbies

\* A party that plays was a lobby that agreed to it, or the rest of a match.
MatchesOnlyShrink ==
  [][\A party \in matches' :
       \/ \E old \in matches : party \subseteq old
       \/ party \in lobbies]_vars
=============================================================================
