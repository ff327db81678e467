---------------------------- MODULE ConnectOnce ----------------------------
(***************************************************************************)
(* What a Client promises about its connection.  Every call that needs the *)
(* session while there is none takes part in one attempt to open it; the   *)
(* attempt ends for all of them at once; a session is opened at most once  *)
(* in the life of the client; and a client closes only when it is open,    *)
(* for good.                                                               *)
(***************************************************************************)
EXTENDS Naturals

CONSTANTS Clients, Calls

VARIABLES
  phase,      \* of the connection of each client
  asking      \* the calls that take part in the attempt under way

cvars == <<phase, asking>>

Phases == {"closed", "opening", "open", "shut"}

CInit ==
  /\ phase = [c \in Clients |-> "closed"]
  /\ asking = [c \in Clients |-> {}]

\* A call starts an attempt, or takes part in the one under way.
Ask(c, k) ==
  /\ phase[c] \in {"closed", "opening"}
  /\ k \notin asking[c]
  /\ phase' = [phase EXCEPT ![c] = "opening"]
  /\ asking' = [asking EXCEPT ![c] = @ \cup {k}]

\* The attempt succeeds, or fails, for every call that takes part in it.
Ends(c, after) ==
  /\ phase[c] = "opening"
  /\ phase' = [phase EXCEPT ![c] = after]
  /\ asking' = [asking EXCEPT ![c] = {}]

Open(c) == Ends(c, "open")
Fail(c) == Ends(c, "closed")

Shut(c) ==
  /\ phase[c] = "open"
  /\ phase' = [phase EXCEPT ![c] = "shut"]
  /\ UNCHANGED asking

CNext ==
  \E c \in Clients : (\E k \in Calls : Ask(c, k)) \/ Open(c) \/ Fail(c) \/ Shut(c)

CSpec == CInit /\ [][CNext]_cvars

=============================================================================
