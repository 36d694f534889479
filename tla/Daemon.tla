------------------------------- MODULE Daemon -------------------------------
(***************************************************************************)
(* The daemon: the loop of main (Main.cpp) around the poll of the HTTP       *)
(* server, the signal handler that may run between any two steps of it, the *)
(* log file that SIGHUP reopens, and the destruction of the server when the *)
(* loop ends (Mongoose.hpp, mg_mgr_free).                                    *)
(***************************************************************************)
EXTENDS HttpServer

CONSTANT MaxHangups  \* bound on the hangups that the operator sends

ASSUME DaemonAssumption == MaxHangups \in Nat

VARIABLES
  loop,     \* where main is: "poll", then "read" and "reset" of sig_, then "act";
            \* "last" poll and "free" of ~Mgr, "stopped"; "aborted"
  sig,      \* sig_
  taken,    \* the local copy of it
  path,     \* how often the log file was moved away: what its path names
  log,      \* the file that is written to
  ret,      \* what main returns
  reopened, \* history: how often the log was opened again
  told,     \* history: the operator asked the daemon to stop
  starved   \* history: there was no memory for the send buffer of a connection

mainVars == <<loop, sig, taken, path, log, ret, reopened, told, starved>>
httpVars == <<clientVars, net, got, connVars, send, pollVars, served>>

None == "none"
Stops == {"INT", "TERM"}
Ended == {"stopped", "aborted"}

MainTypeOK ==
  /\ TypeOK
  /\ loop \in {"poll", "read", "reset", "act", "last", "free", "stopped", "aborted"}
  /\ {sig, taken} \subseteq {None, "HUP"} \cup Stops
  /\ path \in 0..MaxHangups /\ log \in 0..path
  /\ ret \in {0, 1} /\ reopened \in 0..MaxHangups /\ {told, starved} \subseteq BOOLEAN

DaemonInit ==
  /\ Init
  /\ loop = "poll" /\ sig = None /\ taken = None
  /\ path = 0 /\ log = 0 /\ ret = 1
  /\ reopened = 0 /\ told = FALSE /\ starved = FALSE

----------------------------------------------------------------------------
(* Signals: sigHandler keeps the last one.                                 *)

\* Log rotation: the file is moved away, and the daemon told.
Hangup ==
  /\ loop \notin Ended /\ path < MaxHangups
  /\ path' = path + 1
  /\ sig' = "HUP"
  /\ UNCHANGED <<httpVars, loop, taken, log, ret, reopened, told, starved>>

Terminate(s) ==
  /\ loop \notin Ended
  /\ sig' = s
  /\ told' = TRUE
  /\ UNCHANGED <<httpVars, loop, taken, path, log, ret, reopened, starved>>

----------------------------------------------------------------------------
(* The loop.                                                               *)

Go(l) == loop' = l

\* A step of the poll, which returns with its last one.
PollStep ==
  /\ loop \in {"poll", "last"}
  /\ Server
  /\ Go(IF ~PollEnd THEN loop ELSE IF loop = "poll" THEN "read" ELSE "free")
  /\ UNCHANGED <<sig, taken, path, log, ret, reopened, told, starved>>

\* Nothing is ready, or a signal interrupts the wait: the poll has no step.
PollIdle ==
  /\ loop \in {"poll", "last"} /\ stage = "select"
  /\ sig # None \/ (Backlog = {} /\ \A c \in Open : ~Readable(c))
  /\ Go(IF loop = "poll" THEN "read" ELSE "free")
  /\ UNCHANGED <<httpVars, sig, taken, path, log, ret, reopened, told, starved>>

ReadSig ==
  /\ loop = "read"
  /\ taken' = sig
  /\ Go("reset")
  /\ UNCHANGED <<httpVars, sig, path, log, ret, reopened, told, starved>>

\* A plausible slip: the signal is not reset.
MutResetSig ==
  /\ loop = "reset"
  /\ Go("act")
  /\ UNCHANGED <<httpVars, sig, taken, path, log, ret, reopened, told, starved>>

ResetSig ==
  /\ loop = "reset"
  /\ sig' = None
  /\ Go("act")
  /\ UNCHANGED <<httpVars, taken, path, log, ret, reopened, told, starved>>

\* Leaving the loop destroys the RestServ, and then the Mgr it is derived from.
Unwind(status) ==
  /\ ret' = status
  /\ userData' = [c \in DOMAIN userData |-> FALSE]
  /\ Go("last")

\* The exception that leaves a poll of the loop is caught by main.
LeaveByThrow ==
  /\ loop = "poll" /\ Throw
  /\ Unwind(1)
  /\ starved' = TRUE
  /\ UNCHANGED <<phase, sig, taken, path, log, reopened, told>>

\* The one that leaves the last poll, or a close after it, meets the destructor
\* of Mgr, which is noexcept: the process is terminated.
Abort ==
  /\ \/ loop = "last" /\ Throw
     \/ /\ loop = "free"
        /\ \E c \in Open : ThrowClose(c)
        /\ UNCHANGED <<clientVars, got, flags, send, pollVars, served>>
  /\ phase' = [c \in Conns |-> "closed"]
  /\ Go("aborted")
  /\ starved' = TRUE
  /\ UNCHANGED <<userData, sig, taken, path, log, ret, reopened, told>>

\* An end of the loop that main itself takes.
Leave(status) ==
  /\ Unwind(status)
  /\ UNCHANGED <<clientVars, net, got, phase, recv, flags, send, pollVars, served,
                 sig, taken, path>>

\* A plausible slip: the case of SIGHUP runs on into the next one.
MutReopen ==
  /\ loop = "act" /\ taken = "HUP"
  /\ Leave(0)
  /\ log' = path /\ reopened' = reopened + 1
  /\ UNCHANGED <<told, starved>>

\* openLogFile throws when the file cannot be opened, which ends the daemon.
Reopen ==
  /\ loop = "act" /\ taken = "HUP"
  /\ \/ /\ log' = path
        /\ reopened' = reopened + 1
        /\ Go("poll")
        /\ UNCHANGED <<httpVars, sig, taken, path, ret, told, starved>>
     \/ Leave(1) /\ UNCHANGED <<log, reopened, told, starved>>

\* A plausible slip: only one of the two signals ends the loop.
MutAct ==
  /\ loop = "act" /\ taken # "HUP"
  /\ \/ taken = "INT" /\ Leave(0) /\ UNCHANGED <<log, reopened, told, starved>>
     \/ taken # "INT" /\ Go("poll") /\ UNCHANGED <<httpVars, sig, taken, path, log, ret,
                                                  reopened, told, starved>>

Act ==
  /\ loop = "act" /\ taken # "HUP"
  /\ \/ taken \in Stops /\ Leave(0) /\ UNCHANGED <<log, reopened, told, starved>>
     \/ taken = None /\ Go("poll") /\ UNCHANGED <<httpVars, sig, taken, path, log, ret,
                                                 reopened, told, starved>>

\* mg_mgr_free: every connection is closed, and the sockets with them.
Free ==
  /\ loop = "free"
  /\ \/ \E c \in Open : CloseConn(c) /\ UNCHANGED loop
     \/ /\ Open = {}
        /\ phase' = [c \in Conns |-> "closed"]
        /\ Go("stopped")
        /\ UNCHANGED <<clientVars, net, got, recv, flags, userData, send, pollVars, served>>
  /\ UNCHANGED <<sig, taken, path, log, ret, reopened, told, starved>>

Main == PollStep \/ LeaveByThrow \/ Abort \/ PollIdle \/ ReadSig \/ ResetSig \/ Reopen \/ Act \/ Free

Clients == \E c \in Conns : Client(c) /\ UNCHANGED mainVars

Operator == Hangup \/ \E s \in Stops : Terminate(s)

DaemonNext == Main \/ Clients \/ Operator

DaemonSpec == DaemonInit /\ [][DaemonNext]_<<httpVars, mainVars>>

\* main goes on, and a client that has not hung up makes room for its response
\* again and again, as long as the daemon runs.
FairDaemonSpec ==
  /\ DaemonSpec
  /\ WF_<<httpVars, mainVars>>(Main)
  /\ \A c \in Conns :
       SF_<<httpVars, mainVars>>(PollStep /\ Select /\ "write" \in ready'[c])

----------------------------------------------------------------------------
(* Properties.                                                             *)

\* Whatever moment a signal comes at, the log is opened again at most once for
\* each hangup: no signal is acted on twice.
ReopensAreAsked == reopened <= path

\* The daemon leaves its loop with status 0 only when it was asked to, and with
\* another only because its log could not be opened again after a hangup, or
\* because there was no memory for the send buffer of a connection.
StopsOnlyWhenTold ==
  loop \in {"last", "free"} \cup Ended =>
    IF ret = 0 THEN told ELSE path > reopened \/ starved

\* A request that is handed on while the loop runs finds its server behind the
\* connection; those of the last poll do not, and do not come before it.
ServerOutlivesLoop ==
  loop \notin {"last", "free"} \cup Ended =>
    \A c \in Conns : \A i \in 1..Len(served[c]) : served[c][i].known

\* A single request to stop may be lost or overwritten, but an operator who
\* repeats either of them while the daemon polls stops it.
RepeatedStopIsObeyed ==
  \A s \in Stops :
    []<><<Terminate(s) /\ loop = "poll">>_<<httpVars, mainVars>> => <>(loop \in Ended)

\* doc/Admin.md:28: the daemon reopens its log file when it receives a SIGHUP.
HangupIsObeyed == log # path ~> (log = path \/ loop \in Ended)

=============================================================================
