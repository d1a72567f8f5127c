--------------------------- MODULE Installer_proof ---------------------------
(***************************************************************************)
(* Proofs about the OpenWRT installers: nothing of the user's is lost,     *)
(* what was changed is undone exactly, and a script that comes to an end   *)
(* of its own, however often others were cut off, leaves dnsmasq a server. *)
(***************************************************************************)
EXTENDS Installer, TLAPS

\* The parts of the inductive invariant.

\* The user's entries are never the installer's, are never taken away, and some
\* server of the user's serves every name.
UserInv ==
  /\ user.servers \cap Targets = {} /\ HasOwn(user)
  /\ user.servers \subseteq pending.servers /\ user.servers \subseteq flash.servers
  /\ Other \in pending.servers \cup flash.servers => Other \in user.servers

\* Without a record nothing is left to be undone, and dnsmasq runs with the user's.
RecordInv ==
  /\ saved.ntp \cap user.servers = {}
  /\ saved.there => saved.noresolv = user.noresolv
  /\ ~saved.there =>
       /\ saved.target = {} /\ saved.ntp = {}
       /\ pending.noresolv = user.noresolv /\ flash.noresolv = user.noresolv
       /\ HasOwn(running)

\* Where the script is, and what it has reached.
AfterNote ==
  {"dropNtp", "forgetNtp", "addNtp", "noteNtp", "noresolv", "commit", "restart", "check"}
Midway == {"dropTarget", "addTarget", "noteTarget", "dropNtp", "forgetNtp", "addNtp",
           "noteNtp", "noresolv", "commit"}
Recording == {"forgetTarget"} \cup Midway \cup {"restart", "check"}

ProgressInv ==
  /\ At("dropTarget") => script.entries \subseteq Targets
  /\ At("noteNtp") => script.entries \subseteq NtpNames \ user.servers
  /\ script.pc \in {"dropTarget", "addTarget", "noteTarget"} => saved.target = {}
  /\ script.pc \in AfterNote => saved.target \subseteq {script.target}
  /\ script.pc \in AfterNote \cup {"noteTarget"} => script.target \in pending.servers
  /\ script.pc \in {"commit", "restart", "check"} => pending.noresolv
  /\ script.pc \in {"restart", "check"} => flash = pending
  /\ At("check") => running = flash
  /\ script.pc \in Recording \cup {"ask", "record"} => doqd.up /\ doqd.at = script.target

\* Restoring needs the record and reaches the user's settings.
UndoInv ==
  /\ script.pc \in Recording \cup {"undoTarget", "undoNtp", "undoNoresolv"} => saved.there
  /\ script.pc \in {"guess", "guessCommit"} => ~saved.there
  /\ script.pc \in {"undoCommit", "undoRestart", "undone", "remove", "forget"} =>
       pending.noresolv = user.noresolv
  /\ script.pc \in {"undoRestart", "undone", "remove", "forget"} =>
       flash.noresolv = user.noresolv
  /\ script.pc \in {"undone", "remove", "forget"} => HasOwn(running)

\* What is pending and neither the user's nor on record is in the hands of the script,
\* unless a cut has left more (torn).
InHand ==
  CASE script.pc \in {"dropTarget", "noteNtp"} -> script.entries
    [] script.pc = "noteTarget" -> {script.target}
    [] OTHER -> {}

Undoing == {"undoNoresolv", "undoCommit", "undoRestart", "undone", "remove", "forget"}

CoverInv ==
  ~torn =>
    /\ pending.servers \ user.servers \subseteq saved.target \cup saved.ntp \cup InHand
    /\ script.pc \in {"undoNtp"} \cup Undoing => pending.servers \cap saved.target \subseteq user.servers
    /\ script.pc \in {"forgetNtp"} \cup Undoing => pending.servers \cap saved.ntp \subseteq user.servers
    /\ ~saved.there => flash.servers \subseteq user.servers
    /\ script.pc \in {"undoRestart", "undone", "remove", "forget"} => flash.servers \subseteq user.servers

Inv == TypeOK /\ UserInv /\ RecordInv /\ ProgressInv /\ UndoInv /\ CoverInv
-----------------------------------------------------------------------------
(* Kinds of steps. *)

\* Those that leave the settings and the record alone.
Quiet ==
  \/ Install \/ PutBinary \/ ReplaceBinary \/ Replaced \/ NoRoom \/ CannotRead \/ StartDoqd
  \/ Answers \/ NoAnswer \/ NtpAdded \/ Forwards \/ DoesNotForward \/ Uninstall \/ Remove

\* Those that change the record only ...
Noting ==
  \/ RecordOnce \/ ForgetTarget \/ NoteTarget \/ ForgetNtp \/ NoteNtp \/ Undone \/ RemoveRecord

\* ... the pending settings only, or what is committed, or runs.
Changing ==
  \/ DropTarget \/ AddTarget \/ DropNtp \/ AddNtp \/ SetNoresolv
  \/ UndoTarget \/ UndoNtp \/ UndoNoresolv \/ Guess

Committing ==
  \/ Commit("commit", "restart") \/ Commit("undoCommit", "undoRestart")
  \/ Commit("guessCommit", "undoRestart")

Restarting == Restart("restart", "check") \/ Restart("undoRestart", "undone")

LEMMA StepKinds ==
  [Next]_vars <=> \/ Quiet \/ Noting \/ Changing \/ Committing \/ Restarting
                  \/ Killed \/ Reboot \/ EditConf \/ Edit \/ UNCHANGED vars
BY DEF Next, Quiet, Noting, Changing, Committing, Restarting

LEMMA SettingsFacts ==
  ASSUME NEW s \in Settings, NEW e
  PROVE  /\ s.servers \subseteq Entries /\ s.noresolv \in BOOLEAN
         /\ Without(s, e) \in Settings /\ Without(s, e).servers = s.servers \ e
         /\ Without(s, e).noresolv = s.noresolv
         /\ With(s, e).servers = s.servers \cup e /\ With(s, e).noresolv = s.noresolv
         /\ e \subseteq Entries => With(s, e) \in Settings
         /\ \A b \in BOOLEAN : /\ [s EXCEPT !.noresolv = b] \in Settings
                               /\ [s EXCEPT !.noresolv = b].servers = s.servers
                               /\ [s EXCEPT !.noresolv = b].noresolv = b
BY DEF Settings, Without, With

Pcs == {"none"} \cup InstallSteps \cup RestoreSteps \cup UninstallSteps

LEMMA ScriptFacts ==
  ASSUME NEW r \in Script
  PROVE  /\ r.pc \in Pcs /\ r.target \in Targets /\ r.entries \subseteq Targets \cup NtpNames
         /\ \A x \in Pcs : [r EXCEPT !.pc = x] \in Script
         /\ \A x \in Pcs, t \in Targets : [r EXCEPT !.pc = x, !.target = t] \in Script
         /\ \A x \in Pcs, y \in {"fail", "remove", "uninstall"} :
              [r EXCEPT !.pc = x, !.then = y] \in Script
         /\ \A x \in Pcs, e \in SUBSET (Targets \cup NtpNames) :
              [r EXCEPT !.pc = x, !.entries = e] \in Script
BY DEF Script, Pcs

LEMMA ConstantFacts ==
  /\ AnyTarget \in Targets /\ NoRecord \in Record /\ NoScript \in Script
  /\ NoDoqd \in [here : BOOLEAN, up : BOOLEAN, at : Addresses]
<1>1. AnyTarget \in Targets BY InstallerAssumption DEF AnyTarget
<1>. QED BY <1>1 DEF NoRecord, Record, NoScript, Script, NoDoqd, Addresses

-----------------------------------------------------------------------------
(* Types. *)

LEMMA ScriptType ==
  ASSUME TypeOK, [Next]_vars
  PROVE  script' \in Script
<1>. USE DEF TypeOK
<1>1. \A from, to : to \in Pcs /\ Goes(from, to) => script' \in Script
  BY ScriptFacts DEF Goes
<1>2. \A x : Ends(x) => script' \in Script
  BY ConstantFacts DEF Ends
<1>3. ASSUME NEW from, NEW y \in {"fail", "remove"}, Restore(from, y) PROVE script' \in Script
  <2>1. "undoTarget" \in Pcs /\ "remove" \in Pcs BY DEF Pcs, RestoreSteps, UninstallSteps
  <2>2. \A x \in {"undoTarget", "remove"} : [script EXCEPT !.pc = x, !.then = y] \in Script
    BY <2>1, ScriptFacts
  <2>. QED BY <1>3, <2>2, ConstantFacts DEF Restore
<1>4. [NoScript EXCEPT !.pc = "binary"] \in Script
  BY ScriptFacts, ConstantFacts DEF Pcs, InstallSteps
<1>. USE DEF Pcs, InstallSteps, RestoreSteps, UninstallSteps
<1>5. CASE Quiet
  <2>1. CASE Install BY <2>1, <1>4 DEF Install
  <2>2. CASE PutBinary \/ ReplaceBinary \/ Replaced \/ Answers \/ NtpAdded
    BY <2>2, <1>1 DEF PutBinary, ReplaceBinary, Replaced, Answers, NtpAdded
  <2>3. CASE NoRoom \/ NoAnswer \/ DoesNotForward
    BY <2>3, <1>3 DEF NoRoom, NoAnswer, DoesNotForward
  <2>4. CASE StartDoqd BY <2>4, ScriptFacts DEF StartDoqd
  <2>5. CASE CannotRead \/ Forwards BY <2>5, <1>2 DEF CannotRead, Forwards
  <2>6. CASE Uninstall
    <3>1. PICK x \in {"undoTarget", "guess"} :
            script' = [NoScript EXCEPT !.pc = x, !.then = "uninstall"]
      BY <2>6 DEF Uninstall
    <3>. QED BY <3>1, ConstantFacts DEF Script
  <2>7. CASE Remove BY <2>7, ScriptFacts, ConstantFacts DEF Remove
  <2>. QED BY <1>5, <2>1, <2>2, <2>3, <2>4, <2>5, <2>6, <2>7 DEF Quiet
<1>6. CASE Noting
  <2>1. CASE RecordOnce \/ NoteTarget \/ ForgetNtp
    BY <2>1, <1>1 DEF RecordOnce, NoteTarget, ForgetNtp
  <2>2. CASE ForgetTarget
    <3>1. saved.target \in SUBSET (Targets \cup NtpNames) BY DEF Record
    <3>. QED BY <2>2, <3>1, ScriptFacts DEF ForgetTarget
  <2>3. CASE NoteNtp BY <2>3, ScriptFacts DEF NoteNtp
  <2>4. CASE Undone BY <2>4, ScriptFacts, ConstantFacts DEF Undone
  <2>5. CASE RemoveRecord BY <2>5, <1>2 DEF RemoveRecord
  <2>. QED BY <1>6, <2>1, <2>2, <2>3, <2>4, <2>5 DEF Noting
<1>7. CASE Changing
  <2>1. CASE DropTarget BY <2>1, ScriptFacts DEF DropTarget
  <2>2. CASE AddNtp
    <3>1. PICK e \in ntp : script' = [script EXCEPT !.pc = "noteNtp", !.entries = {e}]
      BY <2>2 DEF AddNtp
    <3>2. {e} \in SUBSET (Targets \cup NtpNames) OBVIOUS
    <3>. QED BY <3>1, <3>2, ScriptFacts
  <2>3. CASE AddTarget \/ DropNtp \/ SetNoresolv \/ UndoTarget \/ UndoNtp \/ UndoNoresolv \/ Guess
    BY <2>3, <1>1 DEF AddTarget, DropNtp, SetNoresolv, UndoTarget, UndoNtp, UndoNoresolv, Guess
  <2>. QED BY <1>7, <2>1, <2>2, <2>3 DEF Changing
<1>8. CASE Committing \/ Restarting
  BY <1>8, <1>1 DEF Committing, Restarting, Commit, Restart
<1>9. CASE Killed \/ Reboot \/ EditConf \/ Edit \/ UNCHANGED vars
  BY <1>9, ConstantFacts DEF Killed, Reboot, EditConf, Edit, vars
<1>. QED BY <1>5, <1>6, <1>7, <1>8, <1>9, StepKinds

LEMMA SettingsType ==
  ASSUME TypeOK, [Next]_vars
  PROVE  {flash', pending', running', user'} \subseteq Settings
<1>. USE DEF TypeOK, conf
<1>1. CASE Quiet
  BY <1>1 DEF Quiet, Install, PutBinary, ReplaceBinary, Replaced, NoRoom, CannotRead, StartDoqd,
              Answers, NoAnswer, NtpAdded, Forwards, DoesNotForward, Uninstall, Remove
<1>2. CASE Noting
  BY <1>2 DEF Noting, RecordOnce, ForgetTarget, NoteTarget, ForgetNtp, NoteNtp, Undone, RemoveRecord
<1>3. CASE Changing
  <2>1. flash' = flash /\ running' = running /\ user' = user
    BY <1>3 DEF Changing, DropTarget, AddTarget, DropNtp, AddNtp, SetNoresolv, UndoTarget,
                UndoNtp, UndoNoresolv, Guess
  <2>2. script.target \in Entries /\ ntp \subseteq Entries
    BY ScriptFacts DEF Entries
  <2>3. /\ \A e : Without(pending, e) \in Settings
        /\ \A e \in Entries : With(pending, {e}) \in Settings
    BY SettingsFacts
  <2>4. saved.noresolv \in BOOLEAN BY DEF Record
  <2>5. pending' \in Settings
    <3>. HIDE DEF TypeOK
    <3>1. CASE DropTarget \/ DropNtp \/ UndoTarget \/ UndoNtp \/ Guess
      BY <2>3, <3>1 DEF DropTarget, DropNtp, UndoTarget, UndoNtp, Guess
    <3>2. CASE AddTarget
      BY <2>2, <2>3, <3>2 DEF AddTarget
    <3>3. CASE AddNtp
      <4>1. PICK e \in ntp : pending' = With(pending, {e}) BY <3>3 DEF AddNtp
      <4>. QED BY <2>2, <2>3, <4>1
    <3>4. CASE SetNoresolv \/ UndoNoresolv
      <4>1. pending \in Settings BY DEF TypeOK
      <4>2. \A b \in BOOLEAN : [pending EXCEPT !.noresolv = b] \in Settings
        BY <4>1, SettingsFacts
      <4>. QED BY <2>4, <3>4, <4>2 DEF SetNoresolv, UndoNoresolv
    <3>. QED BY <1>3, <3>1, <3>2, <3>3, <3>4 DEF Changing
  <2>. QED BY <2>1, <2>5
<1>4. CASE Committing \/ Restarting
  BY <1>4 DEF Committing, Restarting, Commit, Restart
<1>5. CASE Killed \/ Reboot \/ EditConf \/ UNCHANGED vars
  BY <1>5 DEF Killed, Reboot, EditConf, vars
<1>6. CASE Edit
  <2>1. {Other} \subseteq Entries BY DEF Entries
  <2>. QED BY <1>6, <2>1, SettingsFacts DEF Edit
<1>. QED BY <1>1, <1>2, <1>3, <1>4, <1>5, <1>6, StepKinds

LEMMA RecordType ==
  ASSUME TypeOK, ProgressInv, [Next]_vars
  PROVE  saved' \in Record
<1>. USE DEF TypeOK
<1>1. CASE Noting
  <2>1. saved.target \subseteq Targets /\ saved.ntp \subseteq NtpNames BY DEF Record
  <2>2. CASE RecordOnce
    <3>1. pending.noresolv \in BOOLEAN BY SettingsFacts
    <3>. QED BY <2>2, <3>1, ConstantFacts DEF RecordOnce, Record
  <2>3. CASE ForgetTarget \/ ForgetNtp BY <2>3 DEF ForgetTarget, ForgetNtp, Record
  <2>4. CASE NoteTarget
    <3>1. {script.target} \in SUBSET Targets BY ScriptFacts
    <3>. QED BY <2>4, <3>1 DEF NoteTarget, Record
  <2>5. CASE NoteNtp
    <3>1. saved.ntp \cup script.entries \in SUBSET NtpNames
      BY <2>1, <2>5 DEF NoteNtp, ProgressInv
    <3>. QED BY <2>5, <3>1 DEF NoteNtp, Record
  <2>6. CASE Undone \/ RemoveRecord BY <2>6, ConstantFacts DEF Undone, RemoveRecord
  <2>. QED BY <1>1, <2>2, <2>3, <2>4, <2>5, <2>6 DEF Noting
<1>2. CASE ~Noting
  BY <1>2, StepKinds
     DEF Quiet, Install, PutBinary, ReplaceBinary, Replaced, NoRoom, CannotRead, StartDoqd, Answers,
         NoAnswer, NtpAdded, Forwards, DoesNotForward, Uninstall, Remove,
         Changing, DropTarget, AddTarget, DropNtp, AddNtp, SetNoresolv, UndoTarget,
         UndoNtp, UndoNoresolv, Guess, Committing, Restarting, Commit, Restart,
         Killed, Reboot, EditConf, Edit, vars
<1>. QED BY <1>1, <1>2

Doqd == [here : BOOLEAN, up : BOOLEAN, at : Addresses]

LEMMA DoqdType ==
  ASSUME TypeOK, [Next]_vars
  PROVE  doqd' \in Doqd
<1>1. doqd \in Doqd /\ listen \in Addresses BY DEF TypeOK, Doqd
<1>2. NoDoqd \in Doqd BY ConstantFacts DEF Doqd
<1>3. \A d \in Doqd : [d EXCEPT !.here = TRUE] \in Doqd BY DEF Doqd
<1>4. [here |-> TRUE, up |-> TRUE, at |-> listen] \in Doqd BY <1>1 DEF Doqd
<1>5. CASE PutBinary \/ Replaced \/ NoAnswer
  BY <1>1, <1>2, <1>3, <1>5 DEF PutBinary, Replaced, NoAnswer
<1>6. CASE ReplaceBinary \/ Remove BY <1>2, <1>6 DEF ReplaceBinary, Remove
<1>7. CASE StartDoqd \/ Reboot BY <1>2, <1>4, <1>7 DEF StartDoqd, Reboot
<1>8. CASE ~(PutBinary \/ Replaced \/ NoAnswer \/ ReplaceBinary \/ Remove \/ StartDoqd \/ Reboot)
  <2>1. doqd' = doqd
    BY <1>8, StepKinds
       DEF Quiet, Install, NoRoom, CannotRead, Answers, NtpAdded, Forwards, DoesNotForward, Uninstall,
           Noting, RecordOnce, ForgetTarget, NoteTarget, ForgetNtp, NoteNtp, Undone, RemoveRecord,
           Changing, DropTarget, AddTarget, DropNtp, AddNtp, SetNoresolv, UndoTarget,
           UndoNtp, UndoNoresolv, Guess, Committing, Restarting, Commit, Restart,
           Killed, EditConf, Edit, vars
  <2>. QED BY <1>1, <2>1
<1>. QED BY <1>5, <1>6, <1>7, <1>8

LEMMA RestType ==
  ASSUME TypeOK, [Next]_vars
  PROVE  /\ up' \in BOOLEAN /\ torn' \in BOOLEAN
         /\ listen' \in Addresses /\ ntp' \subseteq NtpNames
         /\ cuts' \in 0..MaxCuts /\ edits' \in 0..MaxEdits
<1>1. /\ up \in BOOLEAN /\ torn \in BOOLEAN /\ listen \in Addresses /\ ntp \subseteq NtpNames
      /\ cuts \in 0..MaxCuts /\ edits \in 0..MaxEdits
  BY DEF TypeOK
<1>2. CASE Quiet
  BY <1>1, <1>2
     DEF Quiet, Install, PutBinary, ReplaceBinary, Replaced, NoRoom, CannotRead, StartDoqd, Answers,
         NoAnswer, NtpAdded, Forwards, DoesNotForward, Uninstall, Remove, world
<1>3. CASE Noting
  BY <1>1, <1>3 DEF Noting, RecordOnce, ForgetTarget, NoteTarget, ForgetNtp, NoteNtp, Undone,
                    RemoveRecord, world
<1>4. CASE Changing
  BY <1>1, <1>4 DEF Changing, DropTarget, AddTarget, DropNtp, AddNtp, SetNoresolv, UndoTarget,
                    UndoNtp, UndoNoresolv, Guess, world
<1>5. CASE Committing \/ Restarting
  BY <1>1, <1>5 DEF Committing, Restarting, Commit, Restart, world
<1>6. CASE Killed \/ Reboot
  <2>1. cuts' \in 0..MaxCuts /\ edits' = edits
    BY <1>1, <1>6, InstallerAssumption DEF Killed, Reboot, Cut
  <2>2. torn' \in BOOLEAN BY <1>1, <1>6 DEF Killed, Reboot
  <2>3. up' \in BOOLEAN /\ listen' = listen /\ ntp' = ntp BY <1>1, <1>6 DEF Killed, Reboot
  <2>. QED BY <1>1, <2>1, <2>2, <2>3
<1>7. CASE EditConf \/ Edit
  <2>1. edits' \in 0..MaxEdits /\ cuts' = cuts
    BY <1>1, <1>7, InstallerAssumption DEF EditConf, Edit, Edits
  <2>. QED BY <1>1, <1>7, <2>1 DEF EditConf, Edit
<1>8. CASE UNCHANGED vars BY <1>1, <1>8 DEF vars, world
<1>. QED BY <1>2, <1>3, <1>4, <1>5, <1>6, <1>7, <1>8, StepKinds

LEMMA TypeStep ==
  ASSUME TypeOK, ProgressInv, [Next]_vars
  PROVE  TypeOK'
BY ScriptType, SettingsType, RecordType, DoqdType, RestType DEF TypeOK, Doqd
-----------------------------------------------------------------------------
(* What the steps make of the script, the settings and the record, field by field. *)

Turns(from, to) == script.pc = from /\ script'.pc = to /\ script'.target = script.target
Serves(servers) == pending'.servers = servers /\ pending'.noresolv = pending.noresolv
Notes(target, names) ==
  /\ saved'.target = target /\ saved'.ntp = names
  /\ saved'.there = saved.there /\ saved'.noresolv = saved.noresolv

LEMMA ScriptEffects ==
  ASSUME TypeOK, NEW x, NEW e
  PROVE  LET r == [script EXCEPT !.pc = x]
             q == [script EXCEPT !.pc = x, !.entries = e]
         IN /\ r.pc = x /\ r.target = script.target /\ r.entries = script.entries
            /\ r.then = script.then
            /\ q.pc = x /\ q.target = script.target /\ q.entries = e
BY DEF TypeOK, Script

LEMMA PendingEffects ==
  ASSUME TypeOK
  PROVE  /\ \A e : /\ Without(pending, e).servers = pending.servers \ e
                   /\ Without(pending, e).noresolv = pending.noresolv
                   /\ With(pending, e).servers = pending.servers \cup e
                   /\ With(pending, e).noresolv = pending.noresolv
         /\ \A b \in BOOLEAN : /\ [pending EXCEPT !.noresolv = b].servers = pending.servers
                               /\ [pending EXCEPT !.noresolv = b].noresolv = b
         /\ pending.noresolv \in BOOLEAN /\ saved.noresolv \in BOOLEAN /\ saved.there \in BOOLEAN
<1>1. pending \in Settings BY DEF TypeOK
<1>2. saved.noresolv \in BOOLEAN /\ saved.there \in BOOLEAN BY DEF TypeOK, Record
<1>. QED BY <1>1, <1>2, SettingsFacts

LEMMA ChangingEffects ==
  ASSUME TypeOK, Changing
  PROVE  UNCHANGED <<flash, running, up, saved, doqd, user, torn>>
BY DEF Changing, DropTarget, AddTarget, DropNtp, AddNtp, SetNoresolv, UndoTarget, UndoNtp,
       UndoNoresolv, Guess

LEMMA NotingEffects ==
  ASSUME TypeOK, Noting
  PROVE  UNCHANGED <<flash, pending, running, up, doqd, user, torn>>
BY DEF Noting, RecordOnce, ForgetTarget, NoteTarget, ForgetNtp, NoteNtp, Undone, RemoveRecord,
       conf

LEMMA DropTargetEffects ==
  ASSUME TypeOK, DropTarget
  PROVE  /\ Turns("dropTarget", "addTarget") /\ script'.entries = {}
         /\ Serves(pending.servers \ script.entries)
BY ScriptEffects, PendingEffects DEF DropTarget, At, Turns, Serves

LEMMA AddTargetEffects ==
  ASSUME TypeOK, AddTarget
  PROVE  /\ Turns("addTarget", IF script.target \in pending.servers THEN "dropNtp" ELSE "noteTarget")
         /\ Serves(pending.servers \cup {script.target})
BY ScriptEffects, PendingEffects DEF AddTarget, At, Goes, Turns, Serves, HasServer

LEMMA DropNtpEffects ==
  ASSUME TypeOK, DropNtp
  PROVE  Turns("dropNtp", "forgetNtp") /\ Serves(pending.servers \ saved.ntp)
BY ScriptEffects, PendingEffects DEF DropNtp, At, Goes, Turns, Serves

LEMMA AddNtpEffects ==
  ASSUME TypeOK, AddNtp
  PROVE  \E e \in ntp \ pending.servers :
           /\ Turns("addNtp", "noteNtp") /\ script'.entries = {e}
           /\ Serves(pending.servers \cup {e})
BY ScriptEffects, PendingEffects DEF AddNtp, At, Turns, Serves

LEMMA SetNoresolvEffects ==
  ASSUME TypeOK, SetNoresolv
  PROVE  /\ Turns("noresolv", "commit")
         /\ pending'.servers = pending.servers /\ pending'.noresolv
BY ScriptEffects, PendingEffects DEF SetNoresolv, At, Goes, Turns

LEMMA UndoTargetEffects ==
  ASSUME TypeOK, UndoTarget
  PROVE  Turns("undoTarget", "undoNtp") /\ Serves(pending.servers \ saved.target)
BY ScriptEffects, PendingEffects DEF UndoTarget, At, Goes, Turns, Serves

LEMMA UndoNtpEffects ==
  ASSUME TypeOK, UndoNtp
  PROVE  Turns("undoNtp", "undoNoresolv") /\ Serves(pending.servers \ saved.ntp)
BY ScriptEffects, PendingEffects DEF UndoNtp, At, Goes, Turns, Serves

LEMMA UndoNoresolvEffects ==
  ASSUME TypeOK, UndoNoresolv
  PROVE  /\ Turns("undoNoresolv", "undoCommit")
         /\ pending'.servers = pending.servers /\ pending'.noresolv = saved.noresolv
BY ScriptEffects, PendingEffects DEF UndoNoresolv, At, Goes, Turns

LEMMA GuessEffects ==
  ASSUME TypeOK, Guess
  PROVE  /\ Turns("guess", IF listen \in pending.servers THEN "guessCommit" ELSE "remove")
         /\ Serves(pending.servers \ {listen})
BY ScriptEffects, PendingEffects DEF Guess, At, Goes, Turns, Serves, HasServer

LEMMA RecordOnceEffects ==
  ASSUME TypeOK, RecordOnce
  PROVE  /\ Turns("record", "forgetTarget") /\ saved'.there
         /\ IF saved.there THEN Notes(saved.target, saved.ntp)
            ELSE /\ saved'.target = {} /\ saved'.ntp = {}
                 /\ saved'.noresolv = pending.noresolv
BY ScriptEffects, PendingEffects DEF RecordOnce, At, Goes, Turns, Notes, TypeOK, Record, NoRecord

LEMMA ForgetTargetEffects ==
  ASSUME TypeOK, ForgetTarget
  PROVE  /\ Turns("forgetTarget", "dropTarget")
         /\ script'.entries = saved.target /\ Notes({}, saved.ntp)
BY ScriptEffects DEF ForgetTarget, At, Turns, Notes, TypeOK, Record

LEMMA NoteTargetEffects ==
  ASSUME TypeOK, NoteTarget
  PROVE  Turns("noteTarget", "dropNtp") /\ Notes({script.target}, saved.ntp)
BY ScriptEffects DEF NoteTarget, At, Goes, Turns, Notes, TypeOK, Record

LEMMA ForgetNtpEffects ==
  ASSUME TypeOK, ForgetNtp
  PROVE  Turns("forgetNtp", "addNtp") /\ Notes(saved.target, {})
BY ScriptEffects DEF ForgetNtp, At, Goes, Turns, Notes, TypeOK, Record

LEMMA NoteNtpEffects ==
  ASSUME TypeOK, NoteNtp
  PROVE  /\ Turns("noteNtp", "addNtp")
         /\ Notes(saved.target, saved.ntp \cup script.entries)
BY ScriptEffects DEF NoteNtp, At, Turns, Notes, TypeOK, Record

LEMMA UndoneEffects ==
  ASSUME TypeOK, Undone
  PROVE  /\ script.pc = "undone"
         /\ \/ script'.pc = "none" /\ script.then = "fail" /\ saved' = NoRecord
            \/ script'.pc = "remove" /\ saved' \in {saved, NoRecord}
BY ScriptEffects DEF Undone, At, NoScript

LEMMA RemoveRecordEffects ==
  ASSUME TypeOK, RemoveRecord
  PROVE  script.pc = "forget" /\ script'.pc = "none" /\ saved' = NoRecord
BY ScriptEffects DEF RemoveRecord, At, Ends, NoScript

LEMMA GoesTurns ==
  ASSUME TypeOK, NEW from, NEW to, Goes(from, to)
  PROVE  Turns(from, to)
BY ScriptEffects DEF Goes, At, Turns

\* Where the steps that leave settings and record alone take the script.
LEMMA QuietEffects ==
  ASSUME TypeOK, Quiet
  PROVE  /\ UNCHANGED <<flash, pending, running, up, saved, user, torn>>
         /\ \/ /\ script.pc \in {"none", "binary", "replace"}
               /\ script'.pc \in {"binary", "replace", "start"}
            \/ /\ script.pc = "start" /\ script'.pc = "ask"
               /\ doqd'.up /\ doqd'.at = script'.target
            \/ CannotRead /\ script.pc = "start" /\ script'.pc = "none"
            \/ Turns("ask", "record") /\ doqd' = doqd
            \/ Turns("addNtp", "noresolv") /\ doqd' = doqd
            \/ /\ script.pc \in {"none", "binary", "replace", "start", "ask", "check"}
               /\ script'.pc = "undoTarget" /\ saved.there
            \/ script.pc = "none" /\ script'.pc = "guess" /\ ~saved.there
            \/ script.pc \in {"binary", "replace", "start"} /\ script'.pc = "remove" /\ ~saved.there
            \/ script.pc = "ask" /\ script'.pc = "none" /\ ~saved.there
            \/ script.pc = "check" /\ script'.pc = "none" /\ doqd' = doqd
            \/ script.pc = "remove" /\ script'.pc \in {"none", "forget"}
<1>1. UNCHANGED <<flash, pending, running, up, saved, user, torn>>
  BY DEF Quiet, Install, PutBinary, ReplaceBinary, Replaced, NoRoom, CannotRead, StartDoqd,
         Answers, NoAnswer, NtpAdded, Forwards, DoesNotForward, Uninstall, Remove, conf
<1>2. /\ NoScript.pc = "none"
      /\ \A x : LET r == [NoScript EXCEPT !.pc = x]
                    q == [NoScript EXCEPT !.pc = x, !.then = "uninstall"]
                IN r.pc = x /\ q.pc = x
  BY DEF NoScript
<1>3. CASE Install \/ PutBinary \/ ReplaceBinary \/ Replaced
  <2>1. Install => script.pc = "none" /\ script'.pc = "binary" BY <1>2 DEF Install, At
  <2>2. PutBinary => Turns("binary", "start") BY GoesTurns DEF PutBinary
  <2>3. ReplaceBinary => Turns("binary", "replace") BY GoesTurns DEF ReplaceBinary
  <2>4. Replaced => Turns("replace", "start") BY GoesTurns DEF Replaced
  <2>. QED BY <1>1, <1>3, <2>1, <2>2, <2>3, <2>4 DEF Turns
<1>4. CASE StartDoqd
  BY <1>1, <1>4 DEF StartDoqd, At, TypeOK, Script
<1>5. CASE Answers \/ NtpAdded
  BY <1>1, <1>5, GoesTurns DEF Answers, NtpAdded
<1>6. ASSUME NEW from, NEW y \in {"fail", "remove"}, Restore(from, y)
      PROVE  /\ script.pc = from
             /\ \/ saved.there /\ script'.pc = "undoTarget"
                \/ ~saved.there /\ y = "fail" /\ script'.pc = "none"
                \/ ~saved.there /\ y = "remove" /\ script'.pc = "remove"
  <2>1. \A x : [script EXCEPT !.pc = x, !.then = y].pc = x BY DEF TypeOK, Script
  <2>. QED BY <1>2, <1>6, <2>1 DEF Restore, At
<1>7. CASE NoRoom BY <1>1, <1>6, <1>7 DEF NoRoom
<1>8. CASE NoAnswer BY <1>1, <1>6, <1>8 DEF NoAnswer
<1>9. CASE DoesNotForward BY <1>1, <1>6, <1>9 DEF DoesNotForward
<1>10. CASE Forwards BY <1>1, <1>2, <1>10 DEF Forwards, Ends, At
<1>11. CASE Uninstall BY <1>1, <1>2, <1>11 DEF Uninstall, At
<1>12. CASE Remove BY <1>1, <1>2, <1>12, ScriptEffects DEF Remove, At
<1>13. CASE CannotRead BY <1>1, <1>2, <1>13 DEF CannotRead, Ends, At
<1>. QED BY <1>3, <1>4, <1>5, <1>7, <1>8, <1>9, <1>10, <1>11, <1>12, <1>13 DEF Quiet

LEMMA CommittingEffects ==
  ASSUME TypeOK, Committing
  PROVE  /\ UNCHANGED <<pending, running, up, saved, doqd, user, torn>> /\ flash' = pending
         /\ \/ Turns("commit", "restart") \/ Turns("undoCommit", "undoRestart")
            \/ Turns("guessCommit", "undoRestart")
BY GoesTurns DEF Committing, Commit

LEMMA RestartingEffects ==
  ASSUME TypeOK, Restarting
  PROVE  /\ UNCHANGED <<flash, pending, saved, doqd, user, torn>> /\ running' = flash
         /\ Turns("restart", "check") \/ Turns("undoRestart", "undone")
BY GoesTurns DEF Restarting, Restart, conf

LEMMA KilledEffects ==
  ASSUME Killed
  PROVE  /\ UNCHANGED <<flash, pending, running, up, saved, user>>
         /\ script.pc # "none" /\ script'.pc = "none" /\ torn' = (torn \/ ~Covered(pending))
BY DEF Killed, At, NoScript, conf

LEMMA RebootEffects ==
  ASSUME Reboot
  PROVE  /\ UNCHANGED <<flash, saved, user>> /\ pending' = flash /\ running' = flash
         /\ script'.pc = "none" /\ torn' = (torn \/ ~Covered(flash))
BY DEF Reboot, NoScript

LEMMA EditConfEffects ==
  ASSUME EditConf
  PROVE  /\ UNCHANGED <<flash, pending, running, up, saved, script, doqd, user, torn>>
         /\ script.pc = "none"
BY DEF EditConf, At, conf

LEMMA EditEffects ==
  ASSUME TypeOK, Edit
  PROVE  /\ UNCHANGED <<running, up, saved, script, doqd, torn>>
         /\ script.pc = "none" /\ flash' = pending' /\ Serves(pending.servers \cup {Other})
         /\ user'.servers = user.servers \cup {Other} /\ user'.noresolv = user.noresolv
<1>1. user \in Settings BY DEF TypeOK
<1>2. /\ With(user, {Other}).servers = user.servers \cup {Other}
      /\ With(user, {Other}).noresolv = user.noresolv
  BY <1>1, SettingsFacts
<1>. QED BY <1>2, PendingEffects DEF Edit, At, Serves

-----------------------------------------------------------------------------
(* Every step keeps every part of the invariant. *)

\* What neither notes nor changes anything leaves the settings and the record.
LEMMA SettingsFrame ==
  ASSUME TypeOK, [Next]_vars, ~Changing, ~Committing, ~Reboot, ~Edit
  PROVE  UNCHANGED <<flash, pending, user>> /\ (~Noting => saved' = saved)
<1>1. UNCHANGED vars => UNCHANGED <<flash, pending, user, saved>> BY DEF vars, conf
<1>. QED
  BY <1>1, StepKinds, QuietEffects, NotingEffects, RestartingEffects, KilledEffects, EditConfEffects

LEMMA UserStep ==
  ASSUME Inv, [Next]_vars
  PROVE  UserInv'
<1>. USE DEF UserInv, HasOwn
<1>1. /\ TypeOK /\ UserInv /\ RecordInv /\ ProgressInv BY DEF Inv
<1>2. /\ Other \notin Targets \cup NtpNames /\ saved.target \subseteq Targets
      /\ saved.ntp \subseteq NtpNames /\ script.target \in Targets /\ ntp \subseteq NtpNames
  BY <1>1, InstallerAssumption, ScriptFacts DEF TypeOK, Record
<1>3. CASE Changing
  <2>1. flash' = flash /\ user' = user BY <1>1, <1>3, ChangingEffects
  <2>2. \A names \in SUBSET (Targets \cup NtpNames) :
           Serves(pending.servers \cup names) => UserInv'
    BY <1>1, <1>2, <2>1 DEF Serves
  <2>3. \A names \in SUBSET (Targets \cup NtpNames) :
           names \cap user.servers = {} /\ Serves(pending.servers \ names) => UserInv'
    BY <1>1, <1>2, <2>1 DEF Serves
  <2>4. CASE DropTarget
    BY <1>1, <2>3, <2>4, DropTargetEffects DEF ProgressInv, At, Turns
  <2>5. {script.target} \in SUBSET (Targets \cup NtpNames) /\ script.target \notin user.servers
    BY <1>1, <1>2
  <2>6. CASE AddTarget BY <1>1, <2>2, <2>6, <2>5, AddTargetEffects
  <2>7. CASE DropNtp \/ UndoNtp
    BY <1>1, <1>2, <2>3, <2>7, DropNtpEffects, UndoNtpEffects DEF RecordInv
  <2>8. CASE AddNtp
    <3>1. PICK e \in ntp : Serves(pending.servers \cup {e}) BY <1>1, <2>8, AddNtpEffects
    <3>2. {e} \in SUBSET (Targets \cup NtpNames) BY <1>2
    <3>. QED BY <2>2, <3>1, <3>2
  <2>9. CASE SetNoresolv \/ UndoNoresolv
    BY <1>1, <2>1, <2>9, SetNoresolvEffects, UndoNoresolvEffects
  <2>10. CASE UndoTarget BY <1>1, <1>2, <2>3, <2>10, UndoTargetEffects
  <2>11. CASE Guess
    <3>1. Serves(pending.servers \ {listen}) BY <1>1, <2>11, GuessEffects
    <3>2. CASE listen \in Targets
      <4>1. {listen} \in SUBSET (Targets \cup NtpNames) /\ {listen} \cap user.servers = {}
        BY <1>1, <3>2
      <4>. QED BY <2>3, <3>1, <4>1
    <3>3. CASE listen = Unreadable
      <4>1. pending.servers \ {listen} = pending.servers
        BY <1>1, <3>3, InstallerAssumption, SettingsFacts DEF TypeOK, Entries
      <4>. QED BY <1>1, <2>1, <3>1, <4>1 DEF Serves
    <3>. QED BY <1>1, <3>2, <3>3 DEF TypeOK, Addresses
  <2>. QED BY <1>3, <2>4, <2>6, <2>7, <2>8, <2>9, <2>10, <2>11 DEF Changing
<1>4. CASE Committing BY <1>1, <1>4, CommittingEffects
<1>5. CASE Reboot BY <1>1, <1>5, RebootEffects
<1>6. CASE Edit BY <1>1, <1>2, <1>6, EditEffects DEF Serves
<1>7. CASE ~Changing /\ ~Committing /\ ~Reboot /\ ~Edit BY <1>1, <1>7, SettingsFrame
<1>. QED BY <1>3, <1>4, <1>5, <1>6, <1>7

LEMMA RecordStep ==
  ASSUME Inv, [Next]_vars
  PROVE  RecordInv'
<1>. USE DEF RecordInv
<1>1. /\ TypeOK /\ UserInv /\ RecordInv /\ ProgressInv /\ UndoInv BY DEF Inv
<1>2. /\ Other \notin Targets \cup NtpNames
      /\ saved.ntp \subseteq NtpNames /\ script.target \in Targets
  BY <1>1, InstallerAssumption, ScriptFacts DEF TypeOK, Record
<1>3. NoRecord.there = FALSE /\ NoRecord.target = {} /\ NoRecord.ntp = {} BY DEF NoRecord
<1>4. CASE Changing
  <2>1. /\ flash' = flash /\ user' = user /\ saved' = saved /\ running' = running
    BY <1>1, <1>4, ChangingEffects
  <2>2. saved.there \/ pending'.noresolv = pending.noresolv
    <3>1. CASE DropTarget \/ AddTarget \/ DropNtp \/ AddNtp \/ UndoTarget \/ UndoNtp \/ Guess
      BY <1>1, <3>1, DropTargetEffects, AddTargetEffects, DropNtpEffects, AddNtpEffects,
         UndoTargetEffects, UndoNtpEffects, GuessEffects DEF Serves
    <3>2. CASE SetNoresolv
      BY <1>1, <3>2, SetNoresolvEffects DEF UndoInv, Recording, Midway, Turns
    <3>3. CASE UndoNoresolv
      BY <1>1, <3>3, UndoNoresolvEffects DEF UndoInv, Turns
    <3>. QED BY <1>4, <3>1, <3>2, <3>3 DEF Changing
  <2>. QED BY <1>1, <2>1, <2>2 DEF HasOwn
<1>5. CASE Noting
  <2>1. UNCHANGED <<flash, pending, user, running>> BY <1>1, <1>5, NotingEffects
  <2>2. HasOwn(running') <=> HasOwn(running) BY <2>1
  <2>3. CASE RecordOnce BY <1>1, <2>1, <2>3, RecordOnceEffects DEF Notes
  <2>4. CASE ForgetTarget \/ NoteTarget \/ ForgetNtp
    BY <1>1, <2>1, <2>2, <2>4, ForgetTargetEffects, NoteTargetEffects, ForgetNtpEffects
       DEF Notes, UndoInv, Recording, Midway, Turns
  <2>5. CASE NoteNtp
    <3>1. script.pc = "noteNtp" /\ Notes(saved.target, saved.ntp \cup script.entries)
      BY <1>1, <2>5, NoteNtpEffects DEF Turns
    <3>2. saved.there BY <1>1, <3>1 DEF UndoInv, Recording, Midway
    <3>3. script.entries \cap user.servers = {} BY <1>1, <3>1 DEF ProgressInv, At
    <3>. QED BY <1>1, <2>1, <3>1, <3>2, <3>3 DEF Notes
  <2>6. CASE Undone \/ RemoveRecord
    <3>1. script.pc \in {"undone", "forget"} /\ saved' \in {saved, NoRecord}
      BY <1>1, <2>6, UndoneEffects, RemoveRecordEffects
    <3>. QED BY <1>1, <1>3, <2>1, <2>2, <3>1 DEF UndoInv
  <2>. QED BY <1>5, <2>3, <2>4, <2>5, <2>6 DEF Noting
<1>6. CASE Committing BY <1>1, <1>6, CommittingEffects
<1>7. CASE Restarting
  BY <1>1, <1>7, RestartingEffects DEF HasOwn, UserInv
<1>8. CASE Reboot
  BY <1>1, <1>8, RebootEffects DEF HasOwn, UserInv
<1>9. CASE Edit
  BY <1>1, <1>2, <1>9, EditEffects DEF Serves
<1>10. CASE Quiet \/ Killed \/ EditConf \/ UNCHANGED vars
  BY <1>1, <1>10, QuietEffects, KilledEffects, EditConfEffects DEF vars, conf
<1>. QED BY <1>4, <1>5, <1>6, <1>7, <1>8, <1>9, <1>10, StepKinds

LEMMA ProgressStep ==
  ASSUME Inv, [Next]_vars
  PROVE  ProgressInv'
<1>. USE DEF ProgressInv, At, Recording, Midway, AfterNote
<1>1. /\ TypeOK /\ UserInv /\ RecordInv /\ ProgressInv /\ UndoInv BY DEF Inv
<1>2. /\ saved.target \subseteq Targets /\ saved.ntp \subseteq NtpNames
      /\ script.target \in Targets /\ ntp \subseteq NtpNames /\ Targets \cap NtpNames = {}
  BY <1>1, InstallerAssumption, ScriptFacts DEF TypeOK, Record
<1>3. script'.pc \in {"none", "binary", "replace", "start", "undoTarget", "undoNtp",
                     "undoNoresolv", "undoCommit", "undoRestart", "undone", "guess",
                     "guessCommit", "remove", "forget"} => ProgressInv'
  OBVIOUS
<1>4. CASE Changing
  <2>1. UNCHANGED <<flash, running, saved, doqd, user>> BY <1>1, <1>4, ChangingEffects
  <2>2. CASE DropTarget
    <3>1. Turns("dropTarget", "addTarget") BY <1>1, <2>2, DropTargetEffects
    <3>. QED BY <1>1, <2>1, <3>1 DEF Turns
  <2>3. CASE AddTarget
    <3>1. /\ Turns("addTarget", "dropNtp") \/ Turns("addTarget", "noteTarget")
          /\ script.target \in pending'.servers
      BY <1>1, <2>3, AddTargetEffects DEF Serves
    <3>. QED BY <1>1, <2>1, <3>1 DEF Turns
  <2>4. CASE DropNtp
    <3>1. /\ Turns("dropNtp", "forgetNtp")
          /\ script.target \in pending.servers => script.target \in pending'.servers
      BY <1>1, <1>2, <2>4, DropNtpEffects DEF Serves
    <3>. QED BY <1>1, <2>1, <3>1 DEF Turns
  <2>5. CASE AddNtp
    <3>1. PICK e \in ntp \ pending.servers :
            /\ Turns("addNtp", "noteNtp") /\ script'.entries = {e}
            /\ Serves(pending.servers \cup {e})
      BY <1>1, <2>5, AddNtpEffects
    <3>2. script'.entries \subseteq NtpNames \ user'.servers
      BY <1>1, <1>2, <2>1, <3>1 DEF UserInv
    <3>3. script.target \in pending'.servers BY <1>1, <3>1 DEF Turns, Serves
    <3>. QED BY <1>1, <2>1, <3>1, <3>2, <3>3 DEF Turns
  <2>6. CASE SetNoresolv
    <3>1. /\ Turns("noresolv", "commit") /\ pending'.servers = pending.servers
          /\ pending'.noresolv
      BY <1>1, <2>6, SetNoresolvEffects
    <3>. QED BY <1>1, <2>1, <3>1 DEF Turns
  <2>7. CASE UndoTarget \/ UndoNtp \/ UndoNoresolv \/ Guess
    <3>1. script'.pc \in {"undoNtp", "undoNoresolv", "undoCommit", "guessCommit", "remove"}
      BY <1>1, <2>7, UndoTargetEffects, UndoNtpEffects, UndoNoresolvEffects, GuessEffects DEF Turns
    <3>. QED BY <1>3, <3>1
  <2>. QED BY <1>4, <2>2, <2>3, <2>4, <2>5, <2>6, <2>7 DEF Changing
<1>5. CASE Noting
  <2>1. UNCHANGED <<flash, pending, running, doqd, user>> BY <1>1, <1>5, NotingEffects
  <2>2. CASE RecordOnce
    <3>1. Turns("record", "forgetTarget") BY <1>1, <2>2, RecordOnceEffects
    <3>. QED BY <1>1, <2>1, <3>1 DEF Turns
  <2>3. CASE ForgetTarget
    <3>1. /\ Turns("forgetTarget", "dropTarget") /\ script'.entries = saved.target
          /\ saved'.target = {}
      BY <1>1, <2>3, ForgetTargetEffects DEF Notes
    <3>. QED BY <1>1, <1>2, <2>1, <3>1 DEF Turns
  <2>4. CASE NoteTarget
    <3>1. Turns("noteTarget", "dropNtp") /\ saved'.target = {script.target}
      BY <1>1, <2>4, NoteTargetEffects DEF Notes
    <3>. QED BY <1>1, <2>1, <3>1 DEF Turns
  <2>5. CASE ForgetNtp \/ NoteNtp
    <3>1. /\ Turns("forgetNtp", "addNtp") \/ Turns("noteNtp", "addNtp")
          /\ saved'.target = saved.target
      BY <1>1, <2>5, ForgetNtpEffects, NoteNtpEffects DEF Notes
    <3>. QED BY <1>1, <2>1, <3>1 DEF Turns
  <2>6. CASE Undone \/ RemoveRecord
    <3>1. script'.pc \in {"none", "remove"} BY <1>1, <2>6, UndoneEffects, RemoveRecordEffects
    <3>. QED BY <1>3, <3>1
  <2>. QED BY <1>5, <2>2, <2>3, <2>4, <2>5, <2>6 DEF Noting
<1>6. CASE Committing BY <1>1, <1>6, CommittingEffects DEF Turns
<1>7. CASE Restarting BY <1>1, <1>7, RestartingEffects DEF Turns
<1>8. CASE Quiet BY <1>1, <1>8, QuietEffects DEF Turns
<1>9. CASE Killed \/ Reboot \/ EditConf \/ Edit
  <2>1. script'.pc = "none"
    BY <1>1, <1>9, KilledEffects, RebootEffects, EditConfEffects, EditEffects
  <2>. QED BY <1>3, <2>1
<1>10. CASE UNCHANGED vars BY <1>1, <1>10 DEF vars, conf
<1>. QED BY <1>4, <1>5, <1>6, <1>7, <1>8, <1>9, <1>10, StepKinds

LEMMA UndoStep ==
  ASSUME Inv, [Next]_vars
  PROVE  UndoInv'
<1>. USE DEF UndoInv, Recording, Midway
<1>1. /\ TypeOK /\ UserInv /\ RecordInv /\ UndoInv BY DEF Inv
<1>3. CASE Changing
  <2>1. UNCHANGED <<flash, running, saved, user>> BY <1>1, <1>3, ChangingEffects
  <2>2. CASE DropTarget \/ AddTarget \/ DropNtp \/ AddNtp \/ SetNoresolv
    BY <1>1, <2>1, <2>2, DropTargetEffects, AddTargetEffects, DropNtpEffects, AddNtpEffects,
       SetNoresolvEffects DEF Turns
  <2>3. CASE UndoTarget \/ UndoNtp
    BY <1>1, <2>1, <2>3, UndoTargetEffects, UndoNtpEffects DEF Turns
  <2>4. CASE UndoNoresolv
    BY <1>1, <2>1, <2>4, UndoNoresolvEffects DEF Turns, RecordInv
  <2>5. CASE Guess
    BY <1>1, <2>1, <2>5, GuessEffects DEF Turns, Serves, RecordInv, HasOwn
  <2>. QED BY <1>3, <2>2, <2>3, <2>4, <2>5 DEF Changing
<1>4. CASE Noting
  <2>1. UNCHANGED <<flash, pending, running, user>> BY <1>1, <1>4, NotingEffects
  <2>2. HasOwn(running') <=> HasOwn(running) BY <2>1
  <2>3. CASE RecordOnce BY <2>1, <2>3, <1>1, RecordOnceEffects DEF Turns
  <2>4. CASE ForgetTarget \/ NoteTarget \/ ForgetNtp \/ NoteNtp
    BY <2>1, <2>4, <1>1, ForgetTargetEffects, NoteTargetEffects, ForgetNtpEffects, NoteNtpEffects
       DEF Turns, Notes
  <2>5. CASE Undone \/ RemoveRecord
    BY <2>1, <2>2, <2>5, <1>1, UndoneEffects, RemoveRecordEffects
  <2>. QED BY <1>4, <2>3, <2>4, <2>5 DEF Noting
<1>5. CASE Committing
  BY <1>1, <1>5, CommittingEffects DEF Turns, RecordInv
<1>6. CASE Restarting
  <2>1. CASE Turns("restart", "check") BY <1>1, <1>6, <2>1, RestartingEffects DEF Turns
  <2>2. CASE Turns("undoRestart", "undone")
    <3>1. flash.noresolv = user.noresolv BY <1>1, <2>2 DEF Turns
    <3>2. HasOwn(flash) BY <1>1, <3>1 DEF UserInv, HasOwn
    <3>3. HasOwn(running') BY <1>1, <1>6, <3>2, RestartingEffects
    <3>. QED BY <1>1, <1>6, <2>2, <3>3, RestartingEffects DEF Turns
  <2>. QED BY <1>1, <1>6, <2>1, <2>2, RestartingEffects
<1>7. CASE Quiet
  <2>1. HasOwn(running') <=> HasOwn(running) BY <1>1, <1>7, QuietEffects
  <2>. QED BY <1>1, <1>7, <2>1, QuietEffects DEF Turns, RecordInv
<1>8. CASE Killed \/ Reboot \/ EditConf \/ Edit
  <2>1. script'.pc = "none"
    BY <1>1, <1>8, KilledEffects, RebootEffects, EditConfEffects, EditEffects
  <2>. QED BY <2>1
<1>9. CASE UNCHANGED vars BY <1>1, <1>9 DEF vars, conf, HasOwn
<1>. QED BY <1>3, <1>4, <1>5, <1>6, <1>7, <1>8, <1>9, StepKinds

LEMMA CoverStep ==
  ASSUME Inv, [Next]_vars
  PROVE  CoverInv'
<1>. DEFINE Ours == pending.servers \ user.servers
            Noted == saved.target \cup saved.ntp
<1>1. /\ TypeOK /\ UserInv /\ RecordInv /\ ProgressInv /\ UndoInv BY DEF Inv
<1>2. /\ saved.target \subseteq Targets /\ saved.ntp \subseteq NtpNames
      /\ script.target \in Targets /\ ntp \subseteq NtpNames /\ Targets \cap NtpNames = {}
      /\ Other \notin Targets \cup NtpNames
  BY <1>1, InstallerAssumption, ScriptFacts DEF TypeOK, Record
<1>3. torn => torn'
  <2>1. CASE Quiet BY <1>1, <2>1, QuietEffects
  <2>2. CASE Noting BY <1>1, <2>2, NotingEffects
  <2>3. CASE Changing BY <1>1, <2>3, ChangingEffects
  <2>4. CASE Committing \/ Restarting BY <1>1, <2>4, CommittingEffects, RestartingEffects
  <2>5. CASE Killed \/ Reboot BY <2>5, KilledEffects, RebootEffects
  <2>6. CASE EditConf \/ Edit BY <1>1, <2>6, EditConfEffects, EditEffects
  <2>7. CASE UNCHANGED vars BY <2>7 DEF vars
  <2>. QED BY <2>1, <2>2, <2>3, <2>4, <2>5, <2>6, <2>7, StepKinds
<1>. SUFFICES ASSUME ~torn' PROVE CoverInv' BY DEF CoverInv
<1>4. /\ Ours \subseteq Noted \cup InHand
      /\ script.pc \in {"undoNtp"} \cup Undoing => pending.servers \cap saved.target \subseteq user.servers
      /\ script.pc \in {"forgetNtp"} \cup Undoing => pending.servers \cap saved.ntp \subseteq user.servers
      /\ ~saved.there => flash.servers \subseteq user.servers
      /\ script.pc \in {"undoRestart", "undone", "remove", "forget"} => flash.servers \subseteq user.servers
  BY <1>1, <1>3 DEF Inv, CoverInv
<1>5. CASE Changing
  <2>1. UNCHANGED <<flash, saved, user>> BY <1>1, <1>5, ChangingEffects
  <2>2. CASE DropTarget
    <3>1. /\ Turns("dropTarget", "addTarget")
          /\ Serves(pending.servers \ script.entries)
      BY <1>1, <2>2, DropTargetEffects
    <3>. QED BY <1>4, <2>1, <3>1 DEF CoverInv, InHand, Turns, Serves, Undoing, Midway
  <2>3. CASE AddTarget
    <3>1. /\ Turns("addTarget", IF script.target \in pending.servers THEN "dropNtp" ELSE "noteTarget")
          /\ Serves(pending.servers \cup {script.target})
      BY <1>1, <2>3, AddTargetEffects
    <3>. QED BY <1>4, <2>1, <3>1 DEF CoverInv, InHand, Turns, Serves, Undoing, Midway
  <2>4. CASE DropNtp
    <3>1. Turns("dropNtp", "forgetNtp") /\ Serves(pending.servers \ saved.ntp)
      BY <1>1, <2>4, DropNtpEffects
    <3>. QED BY <1>4, <2>1, <3>1 DEF CoverInv, InHand, Turns, Serves, Undoing, Midway
  <2>5. CASE AddNtp
    <3>1. PICK e \in ntp \ pending.servers :
            /\ Turns("addNtp", "noteNtp") /\ script'.entries = {e}
            /\ Serves(pending.servers \cup {e})
      BY <1>1, <2>5, AddNtpEffects
    <3>. QED BY <1>4, <2>1, <3>1 DEF CoverInv, InHand, Turns, Serves, Undoing, Midway
  <2>6. CASE SetNoresolv
    <3>1. Turns("noresolv", "commit") /\ pending'.servers = pending.servers
      BY <1>1, <2>6, SetNoresolvEffects
    <3>. QED BY <1>4, <2>1, <3>1 DEF CoverInv, InHand, Turns, Undoing, Midway
  <2>7. CASE UndoTarget
    <3>1. Turns("undoTarget", "undoNtp") /\ Serves(pending.servers \ saved.target)
      BY <1>1, <2>7, UndoTargetEffects
    <3>. QED BY <1>4, <2>1, <3>1 DEF CoverInv, InHand, Turns, Serves, Undoing, Midway
  <2>8. CASE UndoNtp
    <3>1. Turns("undoNtp", "undoNoresolv") /\ Serves(pending.servers \ saved.ntp)
      BY <1>1, <2>8, UndoNtpEffects
    <3>. QED BY <1>4, <2>1, <3>1 DEF CoverInv, InHand, Turns, Serves, Undoing, Midway
  <2>9. CASE UndoNoresolv
    <3>1. Turns("undoNoresolv", "undoCommit") /\ pending'.servers = pending.servers
      BY <1>1, <2>9, UndoNoresolvEffects
    <3>. QED BY <1>4, <2>1, <3>1 DEF CoverInv, InHand, Turns, Undoing, Midway
  <2>10. CASE Guess
    <3>1. /\ Turns("guess", IF listen \in pending.servers THEN "guessCommit" ELSE "remove")
          /\ Serves(pending.servers \ {listen})
      BY <1>1, <2>10, GuessEffects
    <3>2. ~saved.there /\ Noted = {} BY <1>1, <3>1 DEF RecordInv, UndoInv, Turns
    <3>. QED BY <1>4, <2>1, <3>1, <3>2 DEF CoverInv, InHand, Turns, Serves, Undoing, Midway
  <2>. QED BY <1>5, <2>2, <2>3, <2>4, <2>5, <2>6, <2>7, <2>8, <2>9, <2>10 DEF Changing
<1>6. CASE Noting
  <2>1. UNCHANGED <<flash, pending, user>> BY <1>1, <1>6, NotingEffects
  <2>2. CASE RecordOnce
    <3>1. /\ Turns("record", "forgetTarget")
          /\ saved'.there /\ saved'.target \cup saved'.ntp = Noted
      BY <1>1, <2>2, RecordOnceEffects DEF RecordInv, Notes
    <3>. QED BY <1>4, <2>1, <3>1 DEF CoverInv, InHand, Turns, Undoing, Midway
  <2>3. CASE ForgetTarget
    <3>1. /\ Turns("forgetTarget", "dropTarget") /\ script'.entries = saved.target
          /\ Notes({}, saved.ntp)
      BY <1>1, <2>3, ForgetTargetEffects
    <3>. QED BY <1>4, <2>1, <3>1 DEF CoverInv, InHand, Turns, Notes, Undoing, Midway
  <2>4. CASE NoteTarget
    <3>1. Turns("noteTarget", "dropNtp") /\ Notes({script.target}, saved.ntp)
      BY <1>1, <2>4, NoteTargetEffects
    <3>2. saved.target = {} BY <1>1, <3>1 DEF ProgressInv, Turns
    <3>. QED BY <1>4, <2>1, <3>1, <3>2 DEF CoverInv, InHand, Turns, Notes, Undoing, Midway
  <2>5. CASE ForgetNtp
    <3>1. Turns("forgetNtp", "addNtp") /\ Notes(saved.target, {})
      BY <1>1, <2>5, ForgetNtpEffects
    <3>. QED BY <1>4, <2>1, <3>1 DEF CoverInv, InHand, Turns, Notes, Undoing, Midway
  <2>6. CASE NoteNtp
    <3>1. Turns("noteNtp", "addNtp") /\ Notes(saved.target, saved.ntp \cup script.entries)
      BY <1>1, <2>6, NoteNtpEffects
    <3>. QED BY <1>4, <2>1, <3>1 DEF CoverInv, InHand, Turns, Notes, Undoing, Midway
  <2>7. CASE Undone \/ RemoveRecord
    <3>1. /\ script.pc \in {"undone", "forget"} /\ script'.pc \in {"none", "remove"}
          /\ saved' \in {saved, NoRecord}
      BY <1>1, <2>7, UndoneEffects, RemoveRecordEffects
    <3>2. pending'.servers \subseteq user'.servers /\ flash'.servers \subseteq user'.servers
      BY <1>4, <2>1, <3>1 DEF InHand, Undoing
    <3>3. NoRecord.target = {} /\ NoRecord.ntp = {} BY DEF NoRecord
    <3>. QED BY <1>4, <2>1, <3>1, <3>2, <3>3 DEF CoverInv, InHand, Undoing, Midway
  <2>. QED BY <1>6, <2>2, <2>3, <2>4, <2>5, <2>6, <2>7 DEF Noting
<1>7. CASE Committing
  <2>1. UNCHANGED <<pending, saved, user>> /\ flash' = pending BY <1>1, <1>7, CommittingEffects
  <2>2. CASE Turns("commit", "restart")
    <3>1. saved.there BY <1>1, <2>2 DEF UndoInv, Recording, Midway, Turns
    <3>. QED BY <1>4, <2>1, <2>2, <3>1 DEF CoverInv, InHand, Turns, Undoing
  <2>3. CASE Turns("undoCommit", "undoRestart")
    BY <1>4, <2>1, <2>3 DEF CoverInv, InHand, Turns, Undoing, Midway
  <2>4. CASE Turns("guessCommit", "undoRestart")
    <3>1. Noted = {} BY <1>1, <2>4 DEF RecordInv, UndoInv, Turns
    <3>. QED BY <1>4, <2>1, <2>4, <3>1 DEF CoverInv, InHand, Turns, Undoing, Midway
  <2>. QED BY <1>1, <1>7, <2>2, <2>3, <2>4, CommittingEffects
<1>8. CASE Restarting
  <2>1. UNCHANGED <<flash, pending, saved, user>> BY <1>1, <1>8, RestartingEffects
  <2>2. Turns("restart", "check") \/ Turns("undoRestart", "undone")
    BY <1>1, <1>8, RestartingEffects
  <2>. QED BY <1>4, <2>1, <2>2 DEF CoverInv, InHand, Turns, Undoing, Midway
<1>9. CASE Quiet
  <2>1. UNCHANGED <<flash, pending, saved, user>> BY <1>1, <1>9, QuietEffects
  <2>2. CASE script.pc = "addNtp" /\ script'.pc = "noresolv"
    BY <1>4, <2>1, <2>2 DEF CoverInv, InHand, Undoing, Midway
  <2>3. CASE script.pc = "remove" /\ script'.pc = "forget"
    BY <1>4, <2>1, <2>3 DEF CoverInv, InHand, Undoing, Midway
  <2>4. CASE script'.pc = "remove" /\ ~saved.there
    <3>1. Noted = {} BY <1>1, <2>4 DEF RecordInv
    <3>. QED BY <1>1, <1>4, <1>9, <2>1, <2>4, <3>1, QuietEffects
             DEF CoverInv, InHand, Undoing, Midway, Turns
  <2>5. CASE /\ script'.pc \notin Midway \cup Undoing \cup {"undoNtp", "forgetNtp"}
             /\ script.pc \notin Midway
    BY <1>4, <2>1, <2>5 DEF CoverInv, InHand, Undoing, Midway
  <2>. QED BY <1>1, <1>9, <2>2, <2>3, <2>4, <2>5, QuietEffects DEF Turns, Midway, Undoing
<1>10. CASE Killed
  <2>1. UNCHANGED <<flash, pending, saved, user>> /\ Covered(pending) /\ script'.pc = "none"
    BY <1>10, KilledEffects
  <2>. QED BY <1>1, <1>4, <2>1 DEF CoverInv, Covered, UserInv, InHand, Undoing
<1>11. CASE Reboot
  <2>1. /\ UNCHANGED <<flash, saved, user>> /\ pending' = flash /\ script'.pc = "none" /\ Covered(flash)
    BY <1>11, RebootEffects
  <2>2. flash.servers \ user.servers \subseteq Noted
    BY <1>1, <2>1 DEF Covered, UserInv
  <2>. QED BY <1>4, <2>1, <2>2 DEF CoverInv, InHand, Undoing
<1>12. CASE Edit
  <2>1. /\ UNCHANGED <<saved, script>> /\ script.pc = "none" /\ flash' = pending'
        /\ pending'.servers = pending.servers \cup {Other}
        /\ user'.servers = user.servers \cup {Other}
    BY <1>1, <1>12, EditEffects DEF Serves
  <2>2. InHand = {} /\ (~saved.there => Noted = {}) BY <1>1, <2>1 DEF InHand, RecordInv
  <2>. QED BY <1>4, <2>1, <2>2 DEF CoverInv, InHand, Undoing
<1>13. CASE EditConf \/ UNCHANGED vars
  <2>1. UNCHANGED <<flash, pending, saved, user, script>>
    BY <1>13, EditConfEffects DEF vars, conf
  <2>. QED BY <1>4, <2>1 DEF CoverInv, InHand
<1>. QED BY <1>5, <1>6, <1>7, <1>8, <1>9, <1>10, <1>11, <1>12, <1>13, StepKinds

-----------------------------------------------------------------------------
(* The invariant, and what it says of the scripts. *)

LEMMA InvInit == Init => Inv
<1>. SUFFICES ASSUME Init PROVE Inv OBVIOUS
<1>. USE DEF Init
<1>1. user \in Settings /\ HasOwn(user) /\ user.servers \cap Targets = {} OBVIOUS
<1>2. NoRecord.there = FALSE /\ NoRecord.target = {} /\ NoRecord.ntp = {} BY DEF NoRecord
<1>3. NoScript.pc = "none" BY DEF NoScript
<1>4. TypeOK
  <2>1. 0 \in 0..MaxCuts /\ 0 \in 0..MaxEdits BY InstallerAssumption
  <2>. QED BY <2>1, ConstantFacts DEF TypeOK, Addresses
<1>5. UserInv BY <1>1 DEF UserInv
<1>6. RecordInv BY <1>1, <1>2 DEF RecordInv
<1>7. ProgressInv BY <1>3 DEF ProgressInv, At, AfterNote, Recording, Midway
<1>8. UndoInv BY <1>3 DEF UndoInv, Recording, Midway
<1>9. CoverInv BY <1>2, <1>3 DEF CoverInv, InHand, Undoing, Midway
<1>. QED BY <1>4, <1>5, <1>6, <1>7, <1>8, <1>9 DEF Inv

LEMMA InvStep ==
  ASSUME Inv, [Next]_vars
  PROVE  Inv'
<1>1. TypeOK' BY TypeStep DEF Inv
<1>. QED BY <1>1, UserStep, RecordStep, ProgressStep, UndoStep, CoverStep DEF Inv

LEMMA Invariance == Spec => []Inv
BY InvInit, InvStep, PTL DEF Spec

\* ConsistentAlways: wherever the scripts are cut off, and however often, no entry of
\* the user's is lost, and the original noresolv is on record or in force
\* (install-openwrt.sh:155-173, 433-449).
THEOREM ConsistentAlways == Spec => []Consistent
<1>1. ASSUME Inv PROVE Consistent
  BY <1>1 DEF Inv, UserInv, RecordInv, Consistent, UsersSettingsKept
<1>. QED BY <1>1, Invariance, PTL

\* UndoneInTheEnd: once no script runs and there is no record, the settings are the
\* user's again, unless a cut has left an entry of the installer's, pending or on
\* flash, that was not on record (install-openwrt.sh:19-20, 155-173, 436-474).
THEOREM UndoneInTheEnd == Spec => []UndoneExactly
<1>1. ASSUME Inv PROVE UndoneExactly
  <2>. SUFFICES ASSUME At("none"), ~saved.there, ~torn PROVE pending = user /\ flash = user
    BY DEF UndoneExactly
  <2>1. {flash, pending, user} \subseteq Settings BY <1>1 DEF Inv, TypeOK
  <2>2. pending.servers = user.servers /\ flash.servers = user.servers
    BY <1>1 DEF Inv, UserInv, RecordInv, CoverInv, InHand, Midway, At
  <2>3. pending.noresolv = user.noresolv /\ flash.noresolv = user.noresolv
    BY <1>1 DEF Inv, RecordInv
  <2>. QED BY <2>1, <2>2, <2>3 DEF Settings
<1>. QED BY <1>1, Invariance, PTL

\* ServedAtTheEnd: when a script comes to its own end, dnsmasq, if it runs, has a
\* server for every name: doqd, which runs and listens there, or one of the user's
\* (install-openwrt.sh:12-14, 399-417).  One end is excepted: the installer that dies
\* of an unreadable listen address (360-363), perhaps after it has stopped doqd.
THEOREM ServedAtTheEnd == Spec => NeverCutOff
<1>1. ASSUME Inv, [Next]_vars
      PROVE  [~At("none") /\ ~Killed /\ ~Reboot /\ ~CannotRead /\ script'.pc = "none" /\ up => Supplied']_vars
  <2>. SUFFICES ASSUME Next, ~At("none"), ~Killed, ~Reboot, ~CannotRead, script'.pc = "none", up
                PROVE  Supplied'
    BY <1>1
  <2>1. /\ TypeOK /\ RecordInv /\ ProgressInv /\ UndoInv /\ script.pc # "none"
    BY <1>1 DEF Inv, At
  <2>2. HasOwn(running) /\ running' = running => Supplied' BY DEF Supplied
  <2>3. CASE Quiet
    <3>1. running' = running BY <2>1, <2>3, QuietEffects
    <3>2. CASE script.pc = "check"
      <4>1. doqd' = doqd BY <2>1, <2>3, <3>2, QuietEffects DEF Turns
      <4>2. doqd.up /\ doqd.at \in running.servers
        BY <2>1, <3>2 DEF ProgressInv, At, AfterNote, Recording
      <4>. QED BY <3>1, <4>1, <4>2 DEF Supplied
    <3>3. CASE script.pc # "check"
      <4>1. HasOwn(running) BY <2>1, <2>3, <3>3, QuietEffects DEF RecordInv, UndoInv, Turns
      <4>. QED BY <2>2, <3>1, <4>1
    <3>. QED BY <3>2, <3>3
  <2>4. CASE Noting
    <3>1. running' = running BY <2>1, <2>4, NotingEffects
    <3>2. script.pc \in {"undone", "forget"}
      BY <2>1, <2>4, RecordOnceEffects, ForgetTargetEffects, NoteTargetEffects, ForgetNtpEffects,
         NoteNtpEffects, UndoneEffects, RemoveRecordEffects DEF Noting, Turns
    <3>. QED BY <2>1, <2>2, <3>1, <3>2 DEF UndoInv
  <2>5. ~Changing
    BY <2>1, DropTargetEffects, AddTargetEffects, DropNtpEffects, AddNtpEffects,
       SetNoresolvEffects, UndoTargetEffects, UndoNtpEffects, UndoNoresolvEffects, GuessEffects
       DEF Changing, Turns
  <2>6. ~Committing /\ ~Restarting
    BY <2>1, CommittingEffects, RestartingEffects DEF Turns
  <2>7. ~EditConf /\ ~Edit BY <2>1, EditConfEffects, EditEffects
  <2>8. CASE UNCHANGED vars BY <2>1, <2>8 DEF vars
  <2>. QED BY <2>3, <2>4, <2>5, <2>6, <2>7, <2>8, StepKinds
<1>. QED BY <1>1, Invariance, PTL DEF Spec, NeverCutOff

\* SuccessIsTrue: when the installer reports success, `doqd status` would say that
\* dnsmasq forwards to the address doqd was started at, and names no other server but
\* the user's own (install-openwrt.sh:476-506, dnsmasq.go:142-180).
THEOREM SuccessIsTrue == Spec => SuccessForwards
<1>. DEFINE report == Report(script.target)
<1>1. ASSUME Inv, Forwards
      PROVE  /\ report.verdict = "forwards"
             /\ ~torn => report.others \subseteq user.servers
  <2>1. script.pc = "check" BY <1>1 DEF Forwards, Ends, At
  <2>2. /\ script.target \in pending.servers
        /\ pending = running /\ pending.noresolv /\ saved.target \subseteq {script.target}
    BY <1>1, <2>1 DEF Inv, ProgressInv, At, AfterNote, Recording
  <2>3. saved.ntp \subseteq NtpNames BY <1>1 DEF Inv, TypeOK, Record
  <2>4. ~torn => pending.servers \ user.servers \subseteq {script.target} \cup NtpNames
    BY <1>1, <2>1, <2>2, <2>3 DEF Inv, CoverInv, InHand
  <2>5. ~torn => \A s \in pending.servers :
                   OtherUpstream(s, script.target) => s \in user.servers
    BY <2>4 DEF OtherUpstream
  <2>6. report.verdict = "forwards" BY <2>2 DEF Report
  <2>7. report.others = {s \in pending.servers : OtherUpstream(s, script.target)}
    BY <2>2 DEF Report
  <2>. QED BY <2>2, <2>5, <2>6, <2>7
<1>2. ASSUME Inv, [Next]_vars
      PROVE  [Forwards => /\ report.verdict = "forwards"
                          /\ ~torn => report.others \subseteq user.servers]_vars
  BY <1>1, <1>2
<1>. QED BY <1>2, Invariance, PTL DEF Spec, SuccessForwards
=============================================================================
