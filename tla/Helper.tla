------------------------------- MODULE Helper -------------------------------
(***************************************************************************)
(* Calls of the web application to the privileged helper.                  *)
(*                                                                         *)
(* One connection per call; the helper serves each in a thread of its own.  *)
(* A client waits so long and then gives up, while the thread goes on; the  *)
(* helper may die and be started again at any time.                        *)
(***************************************************************************)
EXTENDS Integers, FiniteSets

CONSTANTS
    Clients,        \* threads of the application that call
    MaxCalls        \* bound: calls each makes

ASSUME MaxCallsType == MaxCalls \in Nat

VARIABLES
    helper,         \* the process: up or down
    calls,          \* calls a client has made so far
    client,         \* idle, waiting, or how its last call ended
    connection,     \* the connection it waits on, 0: none
    threads,        \* threads of the helper: the call each serves, on which connection
    answers,        \* sent and not yet read
    performed       \* calls whose operation was carried out, even in part (history)

helperVars == <<helper, calls, client, connection, threads, answers, performed>>

Call == [by : Clients, n : 1 .. MaxCalls]
Thread == [call : Call, on : 1 .. MaxCalls, says : {"nothing", "ok", "refused", "error"}]
Answer == [to : Clients, on : 1 .. MaxCalls, says : {"ok", "refused", "error"}]
Outcomes == {"ok", "refused", "error", "unavailable", "lost", "timeout"}

HelperTypeOK ==
    /\ helper \in {"up", "down"}
    /\ calls \in [Clients -> 0 .. MaxCalls]
    /\ client \in [Clients -> Outcomes \cup {"idle", "waiting"}]
    /\ connection \in [Clients -> 0 .. MaxCalls]
    /\ threads \subseteq Thread /\ answers \subseteq Answer
    /\ performed \subseteq Call

-----------------------------------------------------------------------------
(* The client: _request. *)

LastCall(c) == [by |-> c, n |-> calls[c]]

\* Mutant of Connects: one connection for all calls.
ConnectsOnce(c) == 1

\* A connection of its own for each call
Connects(c) == calls[c] + 1

Request(c) ==
    /\ client[c] # "waiting" /\ calls[c] < MaxCalls
    /\ calls' = [calls EXCEPT ![c] = @ + 1]
    /\ \/ /\ helper = "down"
          /\ client' = [client EXCEPT ![c] = "unavailable"]
          /\ UNCHANGED <<connection, threads>>
       \/ /\ helper = "up"
          /\ client' = [client EXCEPT ![c] = "waiting"]
          /\ connection' = [connection EXCEPT ![c] = Connects(c)]
          /\ threads' = threads \cup {[call |-> [by |-> c, n |-> calls[c] + 1], on |-> Connects(c), says |-> "nothing"]}
    /\ UNCHANGED <<helper, answers, performed>>

\* The call is over, and its connection is closed with all that is unread.
CallEnds(c, outcome) ==
    /\ client[c] = "waiting"
    /\ client' = [client EXCEPT ![c] = outcome]
    /\ connection' = [connection EXCEPT ![c] = 0]
    /\ answers' = {a \in answers : a.to # c}
    /\ UNCHANGED <<helper, calls, threads, performed>>

ReadAnswer(a) == a.on = connection[a.to] /\ CallEnds(a.to, a.says)

GivesUp(c) == CallEnds(c, "timeout")

\* The connection was closed without an answer: the helper died.
ReadsEnd(c) ==
    /\ \A t \in threads : t.call # LastCall(c)
    /\ \A a \in answers : a.to # c
    /\ CallEnds(c, "lost")

ClientNext == \E c \in Clients : Request(c) \/ GivesUp(c) \/ ReadsEnd(c) \/ (\E a \in answers : a.to = c /\ ReadAnswer(a))

-----------------------------------------------------------------------------
(* The helper: Handler.handle. *)

ThreadSays(t, s) == threads' = (threads \ {t}) \cup {[t EXCEPT !.says = s]}

\* Something other than the fixed operations on valid arguments is refused before anything is done.
RefuseCall(t) ==
    /\ t.says = "nothing" /\ ThreadSays(t, "refused")
    /\ UNCHANGED <<helper, calls, client, connection, answers, performed>>

\* The operation is carried out.
Perform(t) ==
    /\ t.says = "nothing" /\ ThreadSays(t, "ok")
    /\ performed' = performed \cup {t.call}
    /\ UNCHANGED <<helper, calls, client, connection, answers>>

\* The operation raises, with some of it done or nothing.
OperationFails(t) ==
    /\ t.says = "nothing" /\ ThreadSays(t, "error")
    /\ performed' \in {performed, performed \cup {t.call}}
    /\ UNCHANGED <<helper, calls, client, connection, answers>>

\* To a client that has given up there is nothing to send.
Send(t) ==
    /\ t.says # "nothing"
    /\ threads' = threads \ {t}
    /\ answers' = IF connection[t.call.by] = t.on
                  THEN answers \cup {[to |-> t.call.by, on |-> t.on, says |-> t.says]}
                  ELSE answers
    /\ UNCHANGED <<helper, calls, client, connection, performed>>

ThreadNext == \E t \in threads : RefuseCall(t) \/ Perform(t) \/ OperationFails(t) \/ Send(t)

\* Threads die with the process; what was begun in a container may have been done or not.
HelperDies ==
    /\ helper = "up" /\ helper' = "down"
    /\ threads' = {}
    /\ \E begun \in SUBSET {t.call : t \in {u \in threads : u.says = "nothing"}} : performed' = performed \cup begun
    /\ UNCHANGED <<calls, client, connection, answers>>

\* serve: the socket is made anew
HelperStarts == helper = "down" /\ helper' = "up" /\ UNCHANGED <<calls, client, connection, threads, answers, performed>>

HelperInit ==
    /\ helper \in {"up", "down"}
    /\ calls = [c \in Clients |-> 0] /\ client = [c \in Clients |-> "idle"]
    /\ connection = [c \in Clients |-> 0]
    /\ threads = {} /\ answers = {} /\ performed = {}

HelperNext == ClientNext \/ ThreadNext \/ HelperDies \/ HelperStarts

HelperSpec == HelperInit /\ [][HelperNext]_helperVars

-----------------------------------------------------------------------------
(* Properties. *)

\* How a call ended tells what became of it: one answered ok was carried out, one refused
\* or never received was not; the others can't tell. No client is told of an earlier call of
\* its own that it had given up and that went on (helper/client.py: _request).
OutcomeIsTrue == \A c \in Clients :
    /\ client[c] = "ok" => LastCall(c) \in performed
    /\ client[c] \in {"refused", "unavailable"} => LastCall(c) \notin performed
=============================================================================
