----------------------------- MODULE Installer -----------------------------
(***************************************************************************)
(* install-openwrt.sh and uninstall-openwrt.sh: how dnsmasq of an OpenWRT  *)
(* router is pointed to doqd and given back what it had.  The settings of  *)
(* dnsmasq are changed in a pending copy (uci, in RAM), committed to       *)
(* flash, and read by dnsmasq when it restarts; $SAVED, on flash, is the   *)
(* record by which the changes are undone.  One action is one command of   *)
(* the scripts, which may be killed between two of them, and the power may *)
(* be lost.                                                                *)
(***************************************************************************)
EXTENDS Naturals

CONSTANTS
  Targets,    \* entries that lead to doqd, one for each listen address
  Unreadable, \* a listen address the scripts make no entry of
  NtpNames,   \* entries that lead the NTP names to a bootstrap server
  Other,      \* an entry of the user's that serves every name
  MaxCuts,    \* how often a script is cut off
  MaxEdits    \* how often the user changes something

ASSUME InstallerAssumption ==
  /\ Targets \cap NtpNames = {} /\ Other \notin Targets \cup NtpNames
  /\ Unreadable \notin Targets \cup NtpNames \cup {Other}
  /\ Targets # {} /\ {MaxCuts, MaxEdits} \subseteq Nat

VARIABLES
  flash,     \* /etc/config/dhcp as committed
  pending,   \* the same with the changes not yet committed
  running,   \* the settings dnsmasq runs with
  up,        \* dnsmasq is running
  saved,     \* $SAVED
  doqd,      \* whether doqd is installed, runs, and where it listens
  script,    \* the script that runs, and its shell variables
  listen,    \* what $CONF says
  ntp,       \* the entries ntp_domains and bootstrap_servers ask for
  user,      \* the settings without the installer (history)
  torn,      \* a cut left an entry of the installer's that is not on record (history)
  cuts,      \* so far, bounded by MaxCuts
  edits      \* so far, bounded by MaxEdits

conf == <<flash, pending>>
world == <<listen, ntp, cuts, edits>>
vars == <<conf, running, up, saved, doqd, script, world, user, torn>>

Addresses == Targets \cup {Unreadable}
Entries == Targets \cup NtpNames \cup {Other}
\* noresolv unset or 0 is off; each is restored as it was.
Settings == [servers : SUBSET Entries, noresolv : BOOLEAN]
Record == [there : BOOLEAN, noresolv : BOOLEAN,
           target : SUBSET Targets, ntp : SUBSET NtpNames]

InstallSteps ==
  {"binary", "replace", "start", "ask", "record", "forgetTarget", "dropTarget",
   "addTarget", "noteTarget", "dropNtp", "forgetNtp", "addNtp", "noteNtp",
   "noresolv", "commit", "restart", "check"}
RestoreSteps == {"undoTarget", "undoNtp", "undoNoresolv", "undoCommit", "undoRestart", "undone"}
UninstallSteps == {"guess", "guessCommit", "remove", "forget"}

\* then: what follows the steps that restore dnsmasq; entries: to be removed or recorded.
Script ==
  [pc : {"none"} \cup InstallSteps \cup RestoreSteps \cup UninstallSteps,
   then : {"none", "fail", "remove", "uninstall"},
   target : Targets,
   entries : SUBSET (Targets \cup NtpNames)]

TypeOK ==
  /\ {flash, pending, running, user} \subseteq Settings
  /\ up \in BOOLEAN
  /\ saved \in Record
  /\ doqd \in [here : BOOLEAN, up : BOOLEAN, at : Addresses]
  /\ script \in Script
  /\ listen \in Addresses /\ ntp \subseteq NtpNames
  /\ torn \in BOOLEAN
  /\ cuts \in 0..MaxCuts /\ edits \in 0..MaxEdits

AnyTarget == CHOOSE t \in Targets : TRUE
NoRecord == [there |-> FALSE, noresolv |-> FALSE, target |-> {}, ntp |-> {}]
NoScript == [pc |-> "none", then |-> "none", target |-> AnyTarget, entries |-> {}]
NoDoqd == [here |-> FALSE, up |-> FALSE, at |-> AnyTarget]

\* A router that has some server for every name, perhaps with NTP entries like those
\* the installer makes, but without an entry that leads to doqd.
HasOwn(settings) == Other \in settings.servers \/ ~settings.noresolv

Init ==
  /\ user \in Settings /\ HasOwn(user) /\ user.servers \cap Targets = {}
  /\ flash = user /\ pending = user /\ running = user /\ up = TRUE
  /\ saved = NoRecord /\ doqd = NoDoqd /\ script = NoScript
  /\ listen = AnyTarget /\ ntp \in SUBSET NtpNames
  /\ torn = FALSE /\ cuts = 0 /\ edits = 0

-----------------------------------------------------------------------------
At(pc) == script.pc = pc
Goes(from, to) == At(from) /\ script' = [script EXCEPT !.pc = to]
Ends(pc) == At(pc) /\ script' = NoScript

\* uci del_list (nothing happens without the entry), add_list, set.
Without(settings, entries) == [settings EXCEPT !.servers = @ \ entries]
With(settings, entries) == [settings EXCEPT !.servers = @ \cup entries]
HasServer(entries) == entries \subseteq pending.servers

\* restore_dnsmasq does nothing without a record.
Restore(from, then) ==
  /\ At(from)
  /\ script' = IF saved.there THEN [script EXCEPT !.pc = "undoTarget", !.then = then]
               ELSE IF then = "fail" THEN NoScript
               ELSE [script EXCEPT !.pc = "remove", !.then = then]

-----------------------------------------------------------------------------
(* install-openwrt.sh: the binary and the daemon. *)

\* The checks are passed; the ones that fail change nothing.
Install ==
  /\ At("none") /\ script' = [NoScript EXCEPT !.pc = "binary"]
  /\ UNCHANGED <<conf, running, up, saved, doqd, world, user, torn>>

\* install_binary beside the old one.
PutBinary ==
  /\ Goes("binary", "start")
  /\ doqd' = [doqd EXCEPT !.here = TRUE]
  /\ UNCHANGED <<conf, running, up, saved, world, user, torn>>

\* No room for two copies: doqd is stopped and its binary replaced.
ReplaceBinary ==
  /\ doqd.here /\ Goes("binary", "replace")
  /\ doqd' = NoDoqd
  /\ UNCHANGED <<conf, running, up, saved, world, user, torn>>

Replaced ==
  /\ Goes("replace", "start")
  /\ doqd' = [doqd EXCEPT !.here = TRUE]
  /\ UNCHANGED <<conf, running, up, saved, world, user, torn>>

\* The binary cannot be written, or fills the flash: remove_doqd.
NoRoom ==
  /\ \/ Restore("binary", "remove") \/ Restore("replace", "remove")
     \/ Restore("start", "remove")
  /\ UNCHANGED <<conf, running, up, saved, doqd, world, user, torn>>

\* The script dies when it cannot read the listen address, wherever doqd is by then.
CannotRead ==
  /\ Ends("start") /\ listen = Unreadable
  /\ UNCHANGED <<conf, running, up, saved, doqd, world, user, torn>>

\* The init script is written and enabled, doqd restarted.
StartDoqd ==
  /\ listen \in Targets
  /\ At("start") /\ script' = [script EXCEPT !.pc = "ask", !.target = listen]
  /\ doqd' = [here |-> TRUE, up |-> TRUE, at |-> listen]
  /\ UNCHANGED <<conf, running, up, saved, world, user, torn>>

Answers ==
  /\ Goes("ask", "record")
  /\ UNCHANGED <<conf, running, up, saved, doqd, world, user, torn>>

\* Mutant: dnsmasq keeps pointing to a doqd that does not answer.
NoAnswerStays ==
  /\ Ends("ask")
  /\ doqd' = [NoDoqd EXCEPT !.here = TRUE]
  /\ UNCHANGED <<conf, running, up, saved, world, user, torn>>

\* doqd does not answer (it stays installed, whatever it does now).
NoAnswer ==
  /\ Restore("ask", "fail")
  /\ doqd' = [NoDoqd EXCEPT !.here = TRUE]
  /\ UNCHANGED <<conf, running, up, saved, world, user, torn>>

-----------------------------------------------------------------------------
(* install-openwrt.sh: the settings of dnsmasq. *)

\* Mutant: every run makes a new record.
RecordAgain ==
  /\ Goes("record", "forgetTarget")
  /\ saved' = [saved EXCEPT !.there = TRUE, !.noresolv = pending.noresolv]
  /\ UNCHANGED <<conf, running, up, doqd, world, user, torn>>

\* The original noresolv, once.
RecordOnce ==
  /\ Goes("record", "forgetTarget")
  /\ saved' = IF saved.there THEN saved
              ELSE [NoRecord EXCEPT !.there = TRUE, !.noresolv = pending.noresolv]
  /\ UNCHANGED <<conf, running, up, doqd, world, user, torn>>

\* The old entry is struck off the record and then from the settings.
ForgetTarget ==
  /\ At("forgetTarget") /\ script' = [script EXCEPT !.pc = "dropTarget", !.entries = saved.target]
  /\ saved' = [saved EXCEPT !.target = {}]
  /\ UNCHANGED <<conf, running, up, doqd, world, user, torn>>

\* Mutant: the entry of the listen address before stays.
KeepTarget ==
  /\ At("dropTarget") /\ script' = [script EXCEPT !.pc = "addTarget", !.entries = {}]
  /\ UNCHANGED <<conf, running, up, saved, doqd, world, user, torn>>

DropTarget ==
  /\ At("dropTarget") /\ script' = [script EXCEPT !.pc = "addTarget", !.entries = {}]
  /\ pending' = Without(pending, script.entries)
  /\ UNCHANGED <<flash, running, up, saved, doqd, world, user, torn>>

\* add_server: an entry that is there is not touched, and not recorded.
AddTarget ==
  /\ Goes("addTarget", IF HasServer({script.target}) THEN "dropNtp" ELSE "noteTarget")
  /\ pending' = With(pending, {script.target})
  /\ UNCHANGED <<flash, running, up, saved, doqd, world, user, torn>>

NoteTarget ==
  /\ Goes("noteTarget", "dropNtp")
  /\ saved' = [saved EXCEPT !.target = {script.target}]
  /\ UNCHANGED <<conf, running, up, doqd, world, user, torn>>

\* The same for the NTP names, in another order.
DropNtp ==
  /\ Goes("dropNtp", "forgetNtp")
  /\ pending' = Without(pending, saved.ntp)
  /\ UNCHANGED <<flash, running, up, saved, doqd, world, user, torn>>

ForgetNtp ==
  /\ Goes("forgetNtp", "addNtp")
  /\ saved' = [saved EXCEPT !.ntp = {}]
  /\ UNCHANGED <<conf, running, up, doqd, world, user, torn>>

\* add_server, for each bootstrap server.
AddNtp ==
  /\ \E e \in ntp \ pending.servers :
       /\ At("addNtp") /\ script' = [script EXCEPT !.pc = "noteNtp", !.entries = {e}]
       /\ pending' = With(pending, {e})
  /\ UNCHANGED <<flash, running, up, saved, doqd, world, user, torn>>

NoteNtp ==
  /\ At("noteNtp") /\ script' = [script EXCEPT !.pc = "addNtp", !.entries = {}]
  /\ saved' = [saved EXCEPT !.ntp = @ \cup script.entries]
  /\ UNCHANGED <<conf, running, up, doqd, world, user, torn>>

NtpAdded ==
  /\ HasServer(ntp) /\ Goes("addNtp", "noresolv")
  /\ UNCHANGED <<conf, running, up, saved, doqd, world, user, torn>>

SetNoresolv ==
  /\ Goes("noresolv", "commit")
  /\ pending' = [pending EXCEPT !.noresolv = TRUE]
  /\ UNCHANGED <<flash, running, up, saved, doqd, world, user, torn>>

Commit(from, to) ==
  /\ Goes(from, to)
  /\ flash' = pending
  /\ UNCHANGED <<pending, running, up, saved, doqd, world, user, torn>>

\* Mutant: dnsmasq goes on with the settings it had.
NoRestart(from, to) ==
  /\ Goes(from, to)
  /\ UNCHANGED <<conf, running, up, saved, doqd, world, user, torn>>

\* dnsmasq reads its settings; it may fail to start.
Restart(from, to) ==
  /\ Goes(from, to)
  /\ up' \in BOOLEAN
  /\ running' = flash
  /\ UNCHANGED <<conf, saved, doqd, world, user, torn>>

\* A query through port 53: dnsmasq runs, and some server of its answers.
Forwards ==
  /\ up /\ Ends("check")
  /\ UNCHANGED <<conf, running, up, saved, doqd, world, user, torn>>

DoesNotForward ==
  /\ Restore("check", "fail")
  /\ UNCHANGED <<conf, running, up, saved, doqd, world, user, torn>>

-----------------------------------------------------------------------------
(* restore_dnsmasq, and the same steps in uninstall-openwrt.sh. *)

UndoTarget ==
  /\ Goes("undoTarget", "undoNtp")
  /\ pending' = Without(pending, saved.target)
  /\ UNCHANGED <<flash, running, up, saved, doqd, world, user, torn>>

UndoNtp ==
  /\ Goes("undoNtp", "undoNoresolv")
  /\ pending' = Without(pending, saved.ntp)
  /\ UNCHANGED <<flash, running, up, saved, doqd, world, user, torn>>

UndoNoresolv ==
  /\ Goes("undoNoresolv", "undoCommit")
  /\ pending' = [pending EXCEPT !.noresolv = saved.noresolv]
  /\ UNCHANGED <<flash, running, up, saved, doqd, world, user, torn>>

\* restore_dnsmasq ends with rm -f $SAVED; the uninstaller does that last of all.
Undone ==
  /\ At("undone")
  /\ script' = IF script.then = "fail" THEN NoScript ELSE [script EXCEPT !.pc = "remove"]
  /\ saved' = IF script.then = "uninstall" THEN saved ELSE NoRecord
  /\ UNCHANGED <<conf, running, up, doqd, world, user, torn>>

Uninstall ==
  /\ At("none")
  /\ script' = [NoScript EXCEPT !.pc = IF saved.there THEN "undoTarget" ELSE "guess",
                                !.then = "uninstall"]
  /\ UNCHANGED <<conf, running, up, saved, doqd, world, user, torn>>

\* Without a record: only the entry that leads to doqd now, whoever made it.
Guess ==
  /\ Goes("guess", IF HasServer({listen}) THEN "guessCommit" ELSE "remove")
  /\ pending' = Without(pending, {listen})
  /\ UNCHANGED <<flash, running, up, saved, doqd, world, user, torn>>

\* The daemon, its binary and its init script go.
Remove ==
  /\ At("remove")
  /\ script' = IF script.then = "uninstall" THEN [script EXCEPT !.pc = "forget"] ELSE NoScript
  /\ doqd' = NoDoqd
  /\ UNCHANGED <<conf, running, up, saved, world, user, torn>>

RemoveRecord ==
  /\ Ends("forget")
  /\ saved' = NoRecord
  /\ UNCHANGED <<conf, running, up, doqd, world, user, torn>>

-----------------------------------------------------------------------------
(* What happens to the scripts, and between them. *)

\* Every entry of the kind the installer makes is on record, or the user's.
Covered(settings) ==
  settings.servers \ user.servers \subseteq saved.target \cup saved.ntp \cup {Other}

Cut == cuts < MaxCuts /\ cuts' = cuts + 1 /\ UNCHANGED edits
Edits == edits < MaxEdits /\ edits' = edits + 1 /\ UNCHANGED cuts

\* A signal, or a command that fails (set -e).  What is pending stays so.
Killed ==
  /\ Cut
  /\ ~At("none") /\ script' = NoScript
  /\ UNCHANGED <<conf, running, up, saved, doqd, listen, ntp, user>>
  /\ torn' = (torn \/ ~Covered(pending))

\* The power is lost: what was not committed is forgotten, all starts anew.
Reboot ==
  /\ Cut
  /\ script' = NoScript
  /\ pending' = flash /\ running' = flash /\ up' = TRUE
  /\ doqd' = IF doqd.here THEN [here |-> TRUE, up |-> TRUE, at |-> listen] ELSE NoDoqd
  /\ UNCHANGED <<flash, saved, listen, ntp, user>>
  /\ torn' = (torn \/ ~Covered(flash))

\* The user edits $CONF, and the settings of dnsmasq that are not the installer's
\* (which commits what is pending, too).
EditConf ==
  /\ Edits
  /\ At("none")
  /\ listen' \in Addresses /\ ntp' \in SUBSET NtpNames
  /\ UNCHANGED <<conf, running, up, saved, doqd, script, user, torn>>

Edit ==
  /\ Edits
  /\ At("none") /\ Other \notin user.servers
  /\ user' = With(user, {Other}) /\ pending' = With(pending, {Other}) /\ flash' = pending'
  /\ UNCHANGED <<running, up, saved, doqd, script, listen, ntp, torn>>

-----------------------------------------------------------------------------
Next ==
  \/ Install \/ PutBinary \/ ReplaceBinary \/ Replaced \/ NoRoom
  \/ CannotRead \/ StartDoqd
  \/ Answers \/ NoAnswer
  \/ RecordOnce \/ ForgetTarget \/ DropTarget \/ AddTarget \/ NoteTarget
  \/ DropNtp \/ ForgetNtp \/ AddNtp \/ NoteNtp \/ NtpAdded
  \/ SetNoresolv \/ Commit("commit", "restart") \/ Restart("restart", "check")
  \/ Forwards \/ DoesNotForward
  \/ UndoTarget \/ UndoNtp \/ UndoNoresolv \/ Commit("undoCommit", "undoRestart")
  \/ Restart("undoRestart", "undone") \/ Undone
  \/ Uninstall \/ Guess \/ Commit("guessCommit", "undoRestart") \/ Remove \/ RemoveRecord
  \/ Killed \/ Reboot \/ EditConf \/ Edit

Spec == Init /\ [][Next]_vars

-----------------------------------------------------------------------------
(* Properties. *)

\* UndoneExactly: when there is no record and no script runs, the settings are the
\* user's, with what the user changed meanwhile.  The exception, torn, is a cut
\* after which an entry of the installer's stays that its record lacks: a script
\* killed between add_list and the note of it (447-448), or between striking the
\* old doqd entry off the record and its del_list (453-455), when the entry is
\* pending; or the power lost between striking an old entry off (453, 464) and the
\* commit (473), when it is still on flash (install-openwrt.sh:19-20, 155-173,
\* 436-474).
UndoneExactly ==
  At("none") /\ ~saved.there /\ ~torn => pending = user /\ flash = user

\* UsersSettingsKept: whatever is cut off and wherever, no entry of the user's is
\* lost, and the original noresolv is on record or in force
\* (install-openwrt.sh:155-173, 433-449).
UsersSettingsKept ==
  /\ user.servers \subseteq pending.servers \cap flash.servers
  /\ IF saved.there THEN saved.noresolv = user.noresolv
                    ELSE flash.noresolv = user.noresolv

\* Consistent: the types, and nothing of the user's is lost.
Consistent == TypeOK /\ UsersSettingsKept

\* NeverCutOff: when a script comes to an end of its own, the dnsmasq it leaves
\* running has some server for every name: doqd, which runs and listens there, or
\* those it had (install-openwrt.sh:12-14, 399-417).  The exception is CannotRead:
\* where the listen address is unreadable the installer dies without restore_dnsmasq
\* (360-363), and when it has replaced the binary in place (287-292), or when doqd
\* did not run before, dnsmasq is left with a doqd that is stopped.
Supplied == HasOwn(running) \/ (doqd.up /\ doqd.at \in running.servers)

NeverCutOff ==
  [][~At("none") /\ ~Killed /\ ~Reboot /\ ~CannotRead /\ script'.pc = "none" /\ up
       => Supplied']_vars

\* dnsmasqReport of `doqd status` (internal/cli/dnsmasq.go), where uci answers.
OtherUpstream(server, target) == server \notin NtpNames \cup {target}

Report(target) ==
  [verdict |-> IF target \notin pending.servers THEN "not forwarding"
               ELSE IF target \notin running.servers THEN "restart dnsmasq"
               ELSE "forwards",
   others |-> {s \in pending.servers : OtherUpstream(s, target)}
              \cup IF pending.noresolv THEN {} ELSE {"the WAN DNS servers"}]

\* SuccessForwards: when the installer reports success, `doqd status` says that
\* dnsmasq forwards to the address doqd was started at, and names no other server
\* but the user's own (install-openwrt.sh:476-506, dnsmasq.go:142-180).
SuccessForwards ==
  [][Forwards => LET report == Report(script.target)
                 IN /\ report.verdict = "forwards"
                    /\ ~torn => report.others \subseteq user.servers]_vars
=============================================================================
