----------------------------- MODULE Reconfigure -----------------------------
(***************************************************************************)
(* doqd add and doqd remove (internal/cli/edit_commands.go, confedit.go):  *)
(* each reads the configuration, edits its copy, replaces the file, and    *)
(* restarts the daemon with the argv it had (daemon.go, the Keenetic way); *)
(* the daemon reads the file (main.go) and takes its port, over UDP and    *)
(* TCP, waiting for its address to come up (server.go).  Several of these  *)
(* commands may run at once and are not aware of each other.               *)
(*                                                                         *)
(* The file is the sequence of its upstream and fallback lines, the lines  *)
(* that the commands look at; the other lines keep their places.           *)
(***************************************************************************)
EXTENDS Integers, Sequences, FiniteSets, TLC

CONSTANTS
  Editors,      \* commands, each run once
  Urls,
  Procs,        \* process ids for daemons
  NoProc,
  Missing,      \* there is no configuration file
  DefaultConf,  \* the server lines of defaultConfLines
  InitConfs,    \* what the file may hold at first
  MaxOutages    \* how often the address of the listen line goes away

Line == [url : Urls, fallback : BOOLEAN]

\* config.Parse: server lines replace the built-in ones, and among them there is
\* an upstream; without any the built-in ones are used.
Parses(lines) ==
  lines # <<>> => \E i \in DOMAIN lines : ~lines[i].fallback

ASSUME ReconfigureAssumption ==
  /\ MaxOutages \in Nat
  /\ Procs # {} /\ Urls # {}
  /\ NoProc \notin Procs /\ Missing \notin Seq(Line)
  /\ DefaultConf # Missing
  /\ \A c \in InitConfs \cup {DefaultConf} : c = Missing \/ (c \in Seq(Line) /\ Parses(c))

VARIABLES
  conf,     \* the file
  proc,     \* each daemon process
  loaded,   \* the configuration it has read
  told,     \* the daemons that have got SIGTERM
  udp,      \* the process that has the port, over UDP
  tcp,      \* and over TCP
  address,  \* the listen address is up
  outages,  \* so far, bounded by MaxOutages
  editor    \* each command

port == <<udp, tcp>>
link == <<address, outages>>
vars == <<conf, proc, loaded, told, port, link, editor>>

Confs == Seq(Line) \cup {Missing}

Command ==
  [op : {"add"}, line : Line]
  \cup [op : {"remove"}, by : {"number"}, n : 0..4]
  \cup [op : {"remove"}, by : {"url"}, url : Urls]

\* An "over" command has nothing left to do.  An interrupted one may have: an
\* "unstopped" one has replaced the file and stopped no daemon, an "unstarted" one
\* has stopped the old daemon and started no new one.
Editor ==
  [pc : {"idle", "probe", "write", "find", "kill", "gone", "start", "up",
         "over", "unstopped", "unstarted"},
   lines : Confs,               \* its copy of the file
   line : Line,                 \* the line it adds
   old : Procs \cup {NoProc}]   \* the daemon it replaces

TypeOK ==
  /\ conf \in Confs
  /\ proc \in [Procs -> {"none", "loading", "udp", "tcp", "waiting", "serving", "stopping"}]
  /\ loaded \in [Procs -> Confs]
  /\ told \subseteq Procs
  /\ {udp, tcp} \subseteq Procs \cup {NoProc}
  /\ address \in BOOLEAN /\ outages \in 0..MaxOutages
  /\ editor \in [Editors -> Editor]
  /\ \A e \in Editors :
       editor[e].pc \in {"kill", "gone", "start", "up"} <=> editor[e].old # NoProc

NoLine == CHOOSE l \in Line : TRUE
New == [pc |-> "idle", lines |-> <<>>, line |-> NoLine, old |-> NoProc]

Alive(p) == proc[p] # "none"

\* A process id is as good as any other.
AnyProc == CHOOSE p \in Procs : TRUE

\* The daemon runs with the configuration that is there, or it does not run.
Init ==
  /\ conf \in InitConfs
  /\ \E up \in {AnyProc, NoProc} :
       /\ proc = [p \in Procs |-> IF p = up THEN "serving" ELSE "none"]
       /\ loaded = [p \in Procs |-> IF p = up THEN conf ELSE <<>>]
       /\ udp = up /\ tcp = up
  /\ told = {} /\ address = TRUE /\ outages = 0
  /\ editor = [e \in Editors |-> New]

-----------------------------------------------------------------------------
(* confedit.go *)

\* The lines before position i, new, and the others.
InsertBefore(lines, i, new) ==
  SubSeq(lines, 1, i - 1) \o <<new>> \o SubSeq(lines, i, Len(lines))

Least(S) == CHOOSE i \in S : \A j \in S : i <= j
Greatest(S) == CHOOSE i \in S : \A j \in S : i >= j

\* Mutant: a new line goes to the end.
AddAtEnd(lines, new) == Append(lines, new)

\* addServer: after the last line of its kind; else before the first line of a
\* later kind; else after the last line.
AddServer(lines, new) ==
  LET same  == {i \in DOMAIN lines : lines[i].fallback = new.fallback}
      later == {i \in DOMAIN lines : lines[i].fallback /\ ~new.fallback}
  IN InsertBefore(lines,
       IF same # {} THEN Greatest(same) + 1
       ELSE IF later # {} THEN Least(later)
       ELSE Len(lines) + 1, new)

\* removeServer's target: a line by number, or the first one with the URL.
Selected(lines, cmd) ==
  IF cmd.by = "number" THEN {cmd.n} \cap DOMAIN lines
  ELSE LET same == {i \in DOMAIN lines : lines[i].url = cmd.url}
       IN IF same = {} THEN {} ELSE {Least(same)}

\* Mutant: the last upstream is not looked after.
RefusedNever(lines, i) == FALSE

\* The last upstream is not removed.
Refused(lines, i) ==
  /\ ~lines[i].fallback
  /\ Cardinality({j \in DOMAIN lines : ~lines[j].fallback}) = 1

\* The line that goes is the first one with the target's URL.
RemoveServer(lines, i) ==
  LET gone == Least({j \in DOMAIN lines : lines[j].url = lines[i].url})
  IN SubSeq(lines, 1, gone - 1) \o SubSeq(lines, gone + 1, Len(lines))

-----------------------------------------------------------------------------
(* runAdd and runRemove. *)

At(e, p) == editor[e].pc = p
Becomes(e, r) == editor' = [editor EXCEPT ![e] = r]
Ends(e) == Becomes(e, [New EXCEPT !.pc = "over"])

\* readConfLines: add makes up the default configuration if there is none; a file
\* that does not parse is not touched.
BeginAdd(e, cmd) ==
  /\ At(e, "idle") /\ cmd.op = "add"
  /\ IF conf = Missing \/ Parses(conf)
     THEN Becomes(e, [New EXCEPT !.pc = "probe", !.line = cmd.line,
                        !.lines = IF conf = Missing THEN DefaultConf ELSE conf])
     ELSE Ends(e)
  /\ UNCHANGED <<conf, proc, loaded, told, port, link>>

\* The probe succeeds, or add is forced; a URL that is there is not added again.
EndProbe(e) ==
  LET r == editor[e] IN
    /\ At(e, "probe")
    /\ IF \E i \in DOMAIN r.lines : r.lines[i].url = r.line.url
       THEN Ends(e)
       ELSE Becomes(e, [r EXCEPT !.pc = "write", !.lines = AddServer(@, r.line)])
    /\ UNCHANGED <<conf, proc, loaded, told, port, link>>

ProbeFails(e) == At(e, "probe") /\ Ends(e) /\ UNCHANGED <<conf, proc, loaded, told, port, link>>

BeginRemove(e, cmd) ==
  /\ At(e, "idle") /\ cmd.op = "remove"
  /\ LET which == IF conf = Missing \/ ~Parses(conf) THEN {} ELSE Selected(conf, cmd)
     IN IF \E i \in which : ~Refused(conf, i)
        THEN \E i \in which :
               Becomes(e, [New EXCEPT !.pc = "write", !.lines = RemoveServer(conf, i)])
        ELSE Ends(e)
  /\ UNCHANGED <<conf, proc, loaded, told, port, link>>

\* writeConfLines: the new file takes the place of the old one at once.
WriteConf(e) ==
  /\ At(e, "write")
  /\ conf' = editor[e].lines
  /\ Becomes(e, [editor[e] EXCEPT !.pc = "find", !.lines = <<>>])
  /\ UNCHANGED <<proc, loaded, told, port, link>>

WriteFails(e) == At(e, "write") /\ Ends(e) /\ UNCHANGED <<conf, proc, loaded, told, port, link>>

-----------------------------------------------------------------------------
(* restartDaemon. *)

\* Mutant: a command that finds a daemon still loading its configuration leaves it.
FindServing(e) ==
  /\ At(e, "find")
  /\ IF \E p \in Procs : proc[p] \in {"serving", "stopping"}
     THEN \E p \in Procs :
            /\ proc[p] \in {"serving", "stopping"}
            /\ Becomes(e, [editor[e] EXCEPT !.pc = "kill", !.old = p])
     ELSE Ends(e)
  /\ UNCHANGED <<conf, proc, loaded, told, port, link>>

\* daemonPID; without a daemon there is nothing to restart.
FindDaemon(e) ==
  /\ At(e, "find")
  /\ IF \E p \in Procs : Alive(p)
     THEN \E p \in Procs : Alive(p) /\ Becomes(e, [editor[e] EXCEPT !.pc = "kill", !.old = p])
     ELSE Ends(e)
  /\ UNCHANGED <<conf, proc, loaded, told, port, link>>

\* SIGTERM; somebody else may have stopped it in between.  Before NotifyContext it
\* is deadly at once.
Kill(e) ==
  LET p == editor[e].old IN
    /\ At(e, "kill")
    /\ IF ~Alive(p) THEN Ends(e) ELSE Becomes(e, [editor[e] EXCEPT !.pc = "gone"])
    /\ IF proc[p] = "loading"
       THEN proc' = [proc EXCEPT ![p] = "none"] /\ UNCHANGED told
       ELSE told' = told \cup ({p} \ {q \in Procs : ~Alive(q)}) /\ UNCHANGED proc
    /\ UNCHANGED <<conf, loaded, port, link>>

\* Mutant: the new daemon is started while the old one still runs.
DontWait(e) ==
  /\ At(e, "gone")
  /\ Becomes(e, [editor[e] EXCEPT !.pc = "start"])
  /\ UNCHANGED <<conf, proc, loaded, told, port, link>>

\* waitGone.
SeeGone(e) ==
  /\ At(e, "gone") /\ ~Alive(editor[e].old)
  /\ Becomes(e, [editor[e] EXCEPT !.pc = "start"])
  /\ UNCHANGED <<conf, proc, loaded, told, port, link>>

\* A process id nobody uses or waits for.
FreeProcs == {p \in Procs : ~Alive(p) /\ \A f \in Editors : editor[f].old # p}

\* cmd.Start returns when the new process has been executed.
StartDaemon(e) ==
  /\ At(e, "start") /\ FreeProcs # {}
  /\ proc' = [proc EXCEPT ![CHOOSE p \in FreeProcs : TRUE] = "loading"]
  /\ Becomes(e, [editor[e] EXCEPT !.pc = "up"])
  /\ UNCHANGED <<conf, loaded, told, port, link>>

\* waitNewDaemon: it is there, or five seconds are over; nothing else follows.
WaitUp(e) == At(e, "up") /\ Ends(e) /\ UNCHANGED <<conf, proc, loaded, told, port, link>>

\* A command stops on its way: its session is closed, a step of restartDaemon fails,
\* or waitGone's ten seconds are over.  What it leaves undone depends on where.
Interrupted(e) ==
  /\ \/ editor[e].pc \in {"probe", "write", "up"} /\ Ends(e)
     \/ editor[e].pc \in {"find", "kill"} /\ Becomes(e, [New EXCEPT !.pc = "unstopped"])
     \/ editor[e].pc \in {"gone", "start"} /\ Becomes(e, [New EXCEPT !.pc = "unstarted"])
  /\ UNCHANGED <<conf, proc, loaded, told, port, link>>

-----------------------------------------------------------------------------
(* The daemon: main.go, and Start, StartWait and Shutdown of server.go. *)

Turns(p, state) == proc' = [proc EXCEPT ![p] = state]
Exits(p) == Turns(p, "none") /\ told' = told \ {p}

LoadConf(p) ==
  /\ proc[p] = "loading"
  /\ Turns(p, IF conf = Missing \/ Parses(conf) THEN "udp" ELSE "none")
  /\ loaded' = [loaded EXCEPT ![p] = conf]
  /\ UNCHANGED <<conf, told, port, link, editor>>

\* Start: a port that is taken is not waited for, an address that is not there is.
BindUdp(p) ==
  /\ proc[p] = "udp"
  /\ \/ ~address /\ Turns(p, "waiting") /\ UNCHANGED <<udp, told>>
     \/ address /\ udp # NoProc /\ Exits(p) /\ UNCHANGED udp
     \/ address /\ udp = NoProc /\ udp' = p /\ Turns(p, "tcp") /\ UNCHANGED told
  /\ UNCHANGED <<conf, loaded, tcp, link, editor>>

\* Mutant: the UDP socket is not closed when the TCP one cannot be had.
BindTcpKeepUdp(p) ==
  /\ proc[p] = "tcp"
  /\ \/ address /\ tcp = NoProc /\ tcp' = p /\ Turns(p, "serving") /\ UNCHANGED <<udp, told>>
     \/ /\ ~address \/ tcp # NoProc
        /\ UNCHANGED port
        /\ IF address THEN Exits(p) ELSE Turns(p, "waiting") /\ UNCHANGED told
  /\ UNCHANGED <<conf, loaded, link, editor>>

\* The same port over TCP; without it the UDP socket is closed again.
BindTcp(p) ==
  /\ proc[p] = "tcp"
  /\ \/ address /\ tcp = NoProc /\ tcp' = p /\ Turns(p, "serving") /\ UNCHANGED <<udp, told>>
     \/ /\ ~address \/ tcp # NoProc
        /\ udp' = NoProc /\ UNCHANGED tcp
        /\ IF address THEN Exits(p) ELSE Turns(p, "waiting") /\ UNCHANGED told
  /\ UNCHANGED <<conf, loaded, link, editor>>

\* StartWait tries again later, unless it is told to stop.
Retry(p) ==
  /\ proc[p] = "waiting" /\ p \notin told
  /\ Turns(p, "udp")
  /\ UNCHANGED <<conf, loaded, told, port, link, editor>>

GiveUpWaiting(p) ==
  /\ proc[p] = "waiting" /\ p \in told
  /\ Exits(p)
  /\ UNCHANGED <<conf, loaded, port, link, editor>>

\* Shutdown closes one socket after the other, and main returns.
Shutdown(p) ==
  /\ proc[p] = "serving" /\ p \in told
  /\ udp' = NoProc /\ Turns(p, "stopping")
  /\ UNCHANGED <<conf, loaded, told, tcp, link, editor>>

Stop(p) ==
  /\ proc[p] = "stopping"
  /\ tcp' = NoProc /\ Exits(p)
  /\ UNCHANGED <<conf, loaded, udp, link, editor>>

\* The interface loses its address and gets it back; open sockets stay.
AddressGoes ==
  /\ address /\ outages < MaxOutages
  /\ address' = FALSE /\ outages' = outages + 1
  /\ UNCHANGED <<conf, proc, loaded, told, port, editor>>

AddressComes ==
  /\ ~address /\ address' = TRUE
  /\ UNCHANGED <<conf, proc, loaded, told, port, outages, editor>>

-----------------------------------------------------------------------------
Edit(e) ==
  EndProbe(e) \/ ProbeFails(e) \/ WriteConf(e) \/ WriteFails(e)

Restart(e) ==
  FindDaemon(e) \/ Kill(e) \/ SeeGone(e) \/ StartDaemon(e) \/ WaitUp(e)

Daemon(p) ==
  \/ LoadConf(p) \/ BindUdp(p) \/ BindTcp(p) \/ Retry(p) \/ GiveUpWaiting(p)
  \/ Shutdown(p) \/ Stop(p)

Next ==
  \/ \E e \in Editors :
       \/ \E cmd \in Command : BeginAdd(e, cmd) \/ BeginRemove(e, cmd)
       \/ Edit(e) \/ Restart(e) \/ Interrupted(e)
  \/ \E p \in Procs : Daemon(p)
  \/ AddressGoes \/ AddressComes

Spec == Init /\ [][Next]_vars

(* A command that has begun goes on, processes are scheduled, and the *)
(* address comes back.                                                *)
Fairness ==
  /\ \A e \in Editors : WF_vars(Edit(e)) /\ WF_vars(Restart(e))
  /\ \A p \in Procs : WF_vars(Daemon(p))
  /\ WF_vars(AddressComes)

FairSpec == Spec /\ Fairness

-----------------------------------------------------------------------------
(* Properties. *)

\* ConfParses: the daemon can be started with what the commands leave behind:
\* every edit of a configuration that parses parses, whoever edits at the same
\* time and wherever a command is interrupted (confedit.go:171-185, 198-219).
ConfParses == conf # Missing => Parses(conf)

\* BlocksStay: in a configuration made by commands the upstreams stand before
\* the fallbacks, whatever is added and removed (confedit.go:115-149).
BlocksStay ==
  conf # Missing =>
    \A i, j \in DOMAIN conf : i < j /\ conf[i].fallback => conf[j].fallback

\* PortHeld: a socket is open for the one process that is past its listen and
\* before its close; so two daemons started at once never both serve, and none
\* leaves a socket behind (server.go:73-95, 123-130).
PortHeld ==
  \A p \in Procs :
    /\ udp = p <=> proc[p] \in {"tcp", "serving"}
    /\ tcp = p <=> proc[p] \in {"serving", "stopping"}

\* Consistent: the types, a file that can be served from and edited further, with
\* the commands' edits in any order (confedit.go:115-219), and sockets that
\* belong to who uses them.
Consistent == TypeOK /\ ConfParses /\ BlocksStay /\ PortHeld

\* LatestServed: when both commands have come to an end and no process is coming
\* or going, a daemon that serves has read the configuration that is in the file,
\* though the commands edited and restarted it at the same time, one of them failed
\* to, or was interrupted before its write or after its SIGTERM (edit_commands.go:
\* 57-70, daemon.go:67-119).  A command interrupted in between, "unstopped", leaves
\* the old daemon to serve the old file, and nothing is said of it.  It is about two
\* commands: of two daemons that compete for the port a third command may find
\* the one that does not get it, and end when that one has gone.
LatestServed ==
  /\ \A e \in Editors : editor[e].pc \in {"idle", "over", "unstarted"}
  /\ \A p \in Procs : proc[p] \in {"none", "serving"} /\ p \notin told
  => \A p \in Procs : proc[p] = "serving" => loaded[p] = conf

\* DaemonReturns: a daemon that ran before the commands runs after them, unless
\* one of them was interrupted after it had stopped the old daemon and before it
\* started the new one; that two new ones may compete for the port, and the address
\* go away while they take it, does not leave the router without one
\* (daemon.go:67-119, server.go:73-115).
DaemonReturns ==
  LET served == \E p \in Procs : proc[p] = "serving"
      unstarted == \E e \in Editors : At(e, "unstarted")
  IN served => <>[](served \/ unstarted)

\* LastUpstreamStays: "refusing to remove the last upstream server": no command
\* leaves the daemon without an upstream (confedit.go:171-185).
LastUpstreamStays ==
  [][\A e \in Editors : At(e, "idle") /\ editor'[e].pc = "write" =>
       Parses(editor'[e].lines)]_vars
=============================================================================
