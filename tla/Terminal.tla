------------------------------ MODULE Terminal -------------------------------
(***************************************************************************)
(* Terminals of the desktop (backend/websocket/terminal.py).  A client's   *)
(* handler opens a pseudo terminal, forks a shell onto it and starts a     *)
(* task that reads the shell's output.  Handlers and tasks share the event *)
(* loop, and descriptors are numbers the system hands out again.           *)
(*                                                                         *)
(* A handler that ends runs its "finally" to the end without letting the   *)
(* loop go: while it waits for its shell (session "closing") nothing else  *)
(* runs.                                                                   *)
(***************************************************************************)
EXTENDS Naturals, FiniteSets, Dicts

CONSTANTS
    Client,
    MaxForkFailures  \* bound

ASSUME TerminalAssumption == MaxForkFailures \in Nat

VARIABLES
    session,    \* of each client
    shell,      \* its process
    master,     \* open descriptors: the client whose shell one leads to, or "nobody"
    master_fd,  \* the number the handler and the task of a client use
    reader,     \* where read_pty is
    cancelled,  \* clients whose read_task was cancelled and has not run since
    shown,      \* whose output each client was sent
    forkFailures

terminalVars == <<session, shell, master, master_fd, reader, cancelled, shown, forkFailures>>

Descriptor == 1 .. 2 * (Cardinality(Client) + MaxForkFailures)

TerminalInit ==
    /\ session = [c \in Client |-> "none"]
    /\ shell = [c \in Client |-> "none"]
    /\ master = EmptyDict
    /\ master_fd = [c \in Client |-> 0]
    /\ reader = [c \in Client |-> "none"]
    /\ cancelled = {}
    /\ shown = [c \in Client |-> {}]
    /\ forkFailures = 0

LoopFree == \A c \in Client : session[c] # "closing"

LowestFree(f, open) ==
    /\ f \in Descriptor \ open
    /\ \A g \in Descriptor \ open : f <= g

\* accept, openpty, fork; the parent closes the slave's side.
Connect(c) ==
    /\ LoopFree /\ session[c] = "none"
    /\ session' = [session EXCEPT ![c] = "open"]
    /\ shell' = [shell EXCEPT ![c] = "running"]
    /\ \E f \in Descriptor :
          /\ LowestFree(f, DOMAIN master)
          /\ master_fd' = [master_fd EXCEPT ![c] = f]
          /\ master' = Put(master, f, c)
    /\ reader' = [reader EXCEPT ![c] = "sleeping"]
    /\ UNCHANGED <<cancelled, shown, forkFailures>>

\* fork raises before anything would close the two descriptors.
ForkFails(c) ==
    /\ LoopFree /\ session[c] = "none"
    /\ forkFailures < MaxForkFailures
    /\ forkFailures' = forkFailures + 1
    /\ session' = [session EXCEPT ![c] = "closed"]
    /\ \E f, g \in Descriptor :
          /\ LowestFree(f, DOMAIN master)
          /\ LowestFree(g, DOMAIN master \cup {f})
          /\ master' = Put(Put(master, f, "nobody"), g, "nobody")
    /\ UNCHANGED <<shell, master_fd, reader, cancelled, shown>>

-----------------------------------------------------------------------------
(* read_pty *)

\* It wakes up and finds output to send, or that there will be none.
ReaderWakes(c) ==
    /\ LoopFree /\ reader[c] = "sleeping" /\ c \notin cancelled
    /\ LET f == master_fd[c] IN
       \/ /\ f \in DOMAIN master /\ master[f] \in Client
          /\ shown' = [shown EXCEPT ![c] = @ \cup {master[f]}]
          /\ reader' = [reader EXCEPT ![c] = "sending"]
       \/ /\ f \in DOMAIN master /\ master[f] \in Client
               => shell[master[f]] \in {"exited", "reaped"}
          /\ reader' = [reader EXCEPT ![c] = "ended"]
          /\ UNCHANGED shown
    /\ UNCHANGED <<session, shell, master, master_fd, cancelled, forkFailures>>

\* send_text returns, or raises as the client is gone.
Sent(c) ==
    /\ LoopFree /\ reader[c] = "sending" /\ c \notin cancelled
    /\ \E to \in {"sleeping", "ended"} : reader' = [reader EXCEPT ![c] = to]
    /\ UNCHANGED <<session, shell, master, master_fd, cancelled, shown, forkFailures>>

\* CancelledError passes both handlers of read_pty.
ReaderCancelled(c) ==
    /\ LoopFree /\ c \in cancelled
    /\ reader' = [reader EXCEPT ![c] = "ended"]
    /\ cancelled' = cancelled \ {c}
    /\ UNCHANGED <<session, shell, master, master_fd, shown, forkFailures>>

-----------------------------------------------------------------------------
(* The handler's loop, and its end. *)

\* Input after which the shell's process ignores both signals and the end of input.
Deafen(c) ==
    /\ LoopFree /\ session[c] = "open" /\ shell[c] = "running"
    /\ shell' = [shell EXCEPT ![c] = "deaf"]
    /\ UNCHANGED <<session, master, master_fd, reader, cancelled, shown, forkFailures>>

\* Mutation: the reader goes on.
CloseKeepsReader(c) ==
    /\ LoopFree /\ session[c] = "open"
    /\ session' = [session EXCEPT ![c] = "closing"]
    /\ UNCHANGED cancelled
    /\ master' = Drop(master, master_fd[c])
    /\ shell' = [shell EXCEPT ![c] = IF @ = "running" THEN "hung up" ELSE @]
    /\ UNCHANGED <<master_fd, reader, shown, forkFailures>>

\* Mutation: the descriptor is only closed when the shell is gone.
CloseLate(c) ==
    /\ LoopFree /\ session[c] = "open"
    /\ session' = [session EXCEPT ![c] = "closing"]
    /\ cancelled' = IF reader[c] = "ended" THEN cancelled ELSE cancelled \cup {c}
    /\ UNCHANGED <<shell, master, master_fd, reader, shown, forkFailures>>

\* The client disconnects, or a message or a full terminal raises what the loop
\* does not catch.  An interactive shell ignores SIGTERM; it dies because the
\* last descriptor of its terminal is closed.
Close(c) ==
    /\ LoopFree /\ session[c] = "open"
    /\ session' = [session EXCEPT ![c] = "closing"]
    /\ cancelled' = IF reader[c] = "ended" THEN cancelled ELSE cancelled \cup {c}
    /\ master' = Drop(master, master_fd[c])
    /\ shell' = [shell EXCEPT ![c] = IF @ = "running" THEN "hung up" ELSE @]
    /\ UNCHANGED <<master_fd, reader, shown, forkFailures>>

\* waitpid returns.
Waited(c) ==
    /\ session[c] = "closing" /\ shell[c] = "exited"
    /\ session' = [session EXCEPT ![c] = "closed"]
    /\ shell' = [shell EXCEPT ![c] = "reaped"]
    /\ UNCHANGED <<master, master_fd, reader, cancelled, shown, forkFailures>>

\* The shell ends: by itself, or of the hangup.
ShellExits(c) ==
    /\ shell[c] \in {"running", "deaf", "hung up"}
    /\ shell' = [shell EXCEPT ![c] = "exited"]
    /\ UNCHANGED <<session, master, master_fd, reader, cancelled, shown, forkFailures>>

HungUpShellExits(c) == shell[c] = "hung up" /\ ShellExits(c)

TerminalNext == \E c \in Client :
    \/ Connect(c) \/ ForkFails(c)
    \/ ReaderWakes(c) \/ Sent(c) \/ ReaderCancelled(c)
    \/ Deafen(c) \/ Close(c) \/ Waited(c)
    \/ ShellExits(c)

\* A process that was hung up ends, and the loop runs what is ready.
TerminalFairness == \A c \in Client :
    /\ WF_terminalVars(HungUpShellExits(c))
    /\ WF_terminalVars(Waited(c))
    /\ WF_terminalVars(ReaderCancelled(c))

TerminalSpec == TerminalInit /\ [][TerminalNext]_terminalVars /\ TerminalFairness

-----------------------------------------------------------------------------
(* A client is sent the output of its own shell only, although a number    *)
(* its reader knew may meanwhile be another client's terminal: cancel and  *)
(* close in websocket_terminal of backend/websocket/terminal.py.           *)
ReadsOwnShell == \A c \in Client : shown[c] \subseteq {c}

(* A terminal that is closed is closed completely: its shell is waited for *)
(* and its reader ends, unless some shell that ignores the hangup holds up *)
(* the event loop (finally of websocket_terminal).                         *)
HeldUp == \E c \in Client : session[c] = "closing" /\ shell[c] = "deaf"

TerminalsEnd ==
    \A c \in Client :
        session[c] = "closing" ~> HeldUp \/ (shell[c] = "reaped" /\ reader[c] = "ended")
=============================================================================
