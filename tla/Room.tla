-------------------------------- MODULE Room --------------------------------
(***************************************************************************)
(* What a chat server promises: clients arrive, enter, leave and are gone, *)
(* in this order and once; whoever is in has a voice of its own at most,   *)
(* and what a voice says is given to the others.  The promise has the      *)
(* holes that chat_server.c leaves it: of those a message is due to, one   *)
(* may be missed for each that leaves meanwhile; who has arrived or is     *)
(* leaving may be given it as well; and after a reset it is given again.   *)
(***************************************************************************)
EXTENDS Naturals, FiniteSets

CONSTANTS Clients, NoConn, Voices

VARIABLES
  door, members, leaving, gone,   \* where the clients are, outside if nowhere
  reset,      \* the clients whose connection was reset
  voice,      \* voice -> the client it speaks for, NoConn if none
  speaking,   \* the voices that are giving a message to the others
  given,      \* voice -> client -> times its message was given to it, 2 at most
  due,        \* voice -> the clients its message is due to
  slack       \* voice -> those that left since

places == <<door, members, leaving, gone>>
speech == <<given, due, slack>>
room   == <<places, reset, voice, speaking, speech>>

RoomInit ==
  /\ door = {} /\ members = {} /\ leaving = {} /\ gone = {} /\ reset = {}
  /\ voice = [v \in Voices |-> NoConn] /\ speaking = {}
  /\ given = [v \in Voices |-> [c \in Clients |-> 0]]
  /\ due = [v \in Voices |-> {}] /\ slack = [v \in Voices |-> 0]

Arrive(c) ==
  /\ c \notin door \cup members \cup leaving \cup gone
  /\ door' = door \cup {c}
  /\ UNCHANGED <<members, leaving, gone, reset, voice, speaking, speech>>

Enter(c) ==
  /\ c \in door
  /\ door' = door \ {c} /\ members' = members \cup {c}
  /\ UNCHANGED <<leaving, gone, reset, voice, speaking, speech>>

\* A voice is found for a member that has none.
Take(v, c) ==
  /\ voice[v] = NoConn /\ c \in members /\ \A u \in Voices : voice[u] # c
  /\ voice' = [voice EXCEPT ![v] = c]
  /\ UNCHANGED <<places, reset, speaking, speech>>

Speak(v) ==
  /\ v \notin speaking /\ voice[v] \in members
  /\ speaking' = speaking \cup {v}
  /\ given' = [given EXCEPT ![v] = [c \in Clients |-> 0]]
  /\ due' = [due EXCEPT ![v] = members \ {voice[v]}]
  /\ slack' = [slack EXCEPT ![v] = 0]
  /\ UNCHANGED <<places, reset, voice>>

\* The reset is found out in place of a message: the last one is given again.
Again(v) ==
  /\ v \notin speaking /\ voice[v] \in members \ reset
  /\ speaking' = speaking \cup {v} /\ reset' = reset \cup {voice[v]}
  /\ UNCHANGED <<places, voice, speech>>

Give(v, c) ==
  /\ v \in speaking /\ c \in door \cup members \cup leaving /\ c # voice[v]
  /\ given[v][c] = 0 \/ voice[v] \in reset
  /\ given' = [given EXCEPT ![v][c] = IF @ < 2 THEN @ + 1 ELSE @]
  /\ reset' \in {reset, reset \cup {c}}
  /\ UNCHANGED <<places, voice, speaking, due, slack>>

Done(v) ==
  /\ v \in speaking
  /\ Cardinality({c \in due[v] : given[v][c] = 0}) <= slack[v]
  /\ speaking' = speaking \ {v}
  /\ UNCHANGED <<places, reset, voice, speech>>

Leave(v) ==
  /\ v \notin speaking /\ voice[v] \in members
  /\ members' = members \ {voice[v]} /\ leaving' = leaving \cup {voice[v]}
  /\ voice' = [voice EXCEPT ![v] = NoConn]
  /\ due' = [u \in Voices |-> due[u] \ {voice[v]}]
  /\ slack' = [u \in Voices |-> IF u \in speaking THEN slack[u] + 1 ELSE slack[u]]
  /\ UNCHANGED <<door, gone, reset, speaking, given>>

Go(c) ==
  /\ c \in leaving
  /\ leaving' = leaving \ {c} /\ gone' = gone \cup {c}
  /\ UNCHANGED <<door, members, reset, voice, speaking, speech>>

Reset(c) ==
  /\ reset' = reset \cup {c}
  /\ UNCHANGED <<places, voice, speaking, speech>>

RoomNext ==
  \/ \E c \in Clients : Arrive(c) \/ Enter(c) \/ Go(c) \/ Reset(c)
  \/ \E v \in Voices :
       \/ Speak(v) \/ Again(v) \/ Done(v) \/ Leave(v)
       \/ \E c \in Clients : Take(v, c) \/ Give(v, c)

RoomSpec == RoomInit /\ [][RoomNext]_room
=============================================================================
