------------------------------ MODULE Shutdown ------------------------------
(***************************************************************************)
(* Stopping the gateway: main's single-listener branch, serve_multi,       *)
(* serve_conn, drain_deadline and shutdown_signal of src/main.rs.          *)
(*                                                                         *)
(* shutdown_signal() subscribes to the signals that arrive after it is     *)
(* first polled.  Once a handler is installed the signal no longer kills   *)
(* the process, so a signal that arrives while nobody is subscribed, or    *)
(* whose subscription is dropped by the other branch of a select, is lost. *)
(* drain_deadline subscribes anew before it sleeps.                        *)
(***************************************************************************)
EXTENDS Integers, FiniteSets

CONSTANTS
    Conns,          \* connections that may be opened
    MaxSignals      \* bound: SIGTERM or Ctrl-C, how often

ShutdownAssumption == MaxSignals \in Nat

VARIABLES
    multi,      \* TRUE: serve_multi; FALSE: one plain listener, axum::serve
    main,       \* "accept", "turn" (between two selects), "drain", "exited"
    heard,      \* the subscription of main's select has a signal
    deadline,   \* main's drain_deadline: "off", "signal" (subscribed) or "sleep"
    conn,       \* of each connection: "off", "sniff", "serve", "drain", "done", "joined"
    told,       \* of each connection: its subscription has a signal
    timer,      \* of each connection: its own drain_deadline
    signals     \* signals sent so far

vars == <<multi, main, heard, deadline, conn, told, timer, signals>>

Init ==
    /\ multi \in BOOLEAN
    /\ main = "accept" /\ heard = FALSE
    /\ deadline = IF multi THEN "off" ELSE "signal"
    /\ conn = [c \in Conns |-> "off"]
    /\ told = [c \in Conns |-> FALSE]
    /\ timer = [c \in Conns |-> "off"]
    /\ signals = 0

Open == {c \in Conns : conn[c] \in {"sniff", "serve", "drain"}}

(* A signal reaches every subscription there is; a drain_deadline that was  *)
(* waiting for it goes to sleep.                                            *)
OnSignalIgnored(d) == d
OnSignal(d) == IF d = "signal" THEN "sleep" ELSE d

Signal ==
    /\ signals < MaxSignals /\ signals' = signals + 1
    /\ heard' = (heard \/ main = "accept")
    /\ deadline' = OnSignal(deadline)
    /\ told' = [c \in Conns |-> told[c] \/ (conn[c] = "serve")]
    /\ timer' = [c \in Conns |-> OnSignal(timer[c])]
    /\ UNCHANGED <<multi, main, conn>>

-----------------------------------------------------------------------------
(* The accept loop.  In serve_multi an accepted connection ends the select, *)
(* and with it the subscription and whatever it had heard.                  *)
Accept(c) ==
    /\ main = "accept" /\ conn[c] = "off"
    /\ conn' = [conn EXCEPT ![c] = IF multi THEN "sniff" ELSE "serve"]
    /\ IF multi THEN main' = "turn" /\ heard' = FALSE ELSE UNCHANGED <<main, heard>>
    /\ UNCHANGED <<multi, deadline, told, timer, signals>>

NextTurn ==
    /\ main = "turn" /\ main' = "accept"
    /\ UNCHANGED <<multi, heard, deadline, conn, told, timer, signals>>

(* Stop accepting.  axum's graceful shutdown and the deadline next to it    *)
(* were subscribed together; serve_multi subscribes the deadline only now.  *)
Stop ==
    /\ main = "accept" /\ heard
    /\ main' = "drain"
    /\ deadline' = IF multi THEN "signal" ELSE deadline
    /\ UNCHANGED <<multi, heard, conn, told, timer, signals>>

(* serve_multi reaps a finished connection; the next select starts a new    *)
(* drain_deadline.                                                          *)
Join(c) ==
    /\ multi /\ main = "drain" /\ conn[c] = "done"
    /\ conn' = [conn EXCEPT ![c] = "joined"]
    /\ deadline' = "signal"
    /\ UNCHANGED <<multi, main, heard, told, timer, signals>>

Drained == \A c \in Conns : conn[c] \in {"off", IF multi THEN "joined" ELSE "done"}

AllDone ==
    /\ main = "drain" /\ Drained
    /\ main' = "exited"
    /\ UNCHANGED <<multi, heard, deadline, conn, told, timer, signals>>

(* The drain timeout: what is still open is dropped. *)
Expires == deadline = "sleep"

DrainTimeout ==
    /\ main # "exited" /\ Expires
    /\ main' = "exited"
    /\ conn' = [c \in Conns |-> IF c \in Open THEN "done" ELSE conn[c]]
    /\ UNCHANGED <<multi, heard, deadline, told, timer, signals>>

-----------------------------------------------------------------------------
(* The connections *)

(* serve_multi reads the first byte before serve_conn subscribes. *)
FirstByte(c) ==
    /\ main # "exited" /\ conn[c] = "sniff"
    /\ conn' = [conn EXCEPT ![c] = "serve"]
    /\ UNCHANGED <<multi, main, heard, deadline, told, timer, signals>>

(* graceful_shutdown: the connection finishes its request and closes.       *)
(* axum tells its connections when it stops itself.                         *)
Graceful(c) ==
    /\ main # "exited" /\ conn[c] = "serve"
    /\ IF multi THEN told[c] ELSE main = "drain"
    /\ conn' = [conn EXCEPT ![c] = "drain"]
    /\ timer' = [timer EXCEPT ![c] = IF multi THEN "signal" ELSE "off"]
    /\ UNCHANGED <<multi, main, heard, deadline, told, signals>>

ConnTimeout(c) ==
    /\ main # "exited" /\ conn[c] = "drain" /\ timer[c] = "sleep"
    /\ conn' = [conn EXCEPT ![c] = "done"]
    /\ timer' = [timer EXCEPT ![c] = "off"]
    /\ UNCHANGED <<multi, main, heard, deadline, told, signals>>

(* The client closes, or its transfer is complete and the connection is.    *)
ConnEnds(c) ==
    /\ main # "exited" /\ c \in Open
    /\ conn' = [conn EXCEPT ![c] = "done"]
    /\ timer' = [timer EXCEPT ![c] = "off"]
    /\ UNCHANGED <<multi, main, heard, deadline, told, signals>>

Exited == main = "exited" /\ UNCHANGED vars

Server ==
    \/ NextTurn \/ Stop \/ AllDone \/ DrainTimeout
    \/ \E c \in Conns : Join(c)

Next ==
    \/ Signal \/ Server \/ Exited
    \/ \E c \in Conns :
          Accept(c) \/ FirstByte(c) \/ Graceful(c) \/ ConnTimeout(c) \/ ConnEnds(c)

Spec == Init /\ [][Next]_vars

(* The server's tasks run and its timers fire; clients do as they like. *)
Fairness == WF_vars(Server) /\ \A c \in Conns : WF_vars(Graceful(c) \/ ConnTimeout(c))
FairSpec == Spec /\ Fairness

-----------------------------------------------------------------------------
(* Properties *)

(* After a signal a single listener ends within the drain timeout, however  *)
(* long its transfers would take.                                           *)
StopsInTime == (signals > 0 /\ ~multi) ~> main = "exited"

(* A process that has stopped accepting comes to its end. *)
DrainCompletes == main = "drain" ~> main = "exited"

=============================================================================
