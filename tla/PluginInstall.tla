--------------------------- MODULE PluginInstall ---------------------------
(***************************************************************************)
(* Installing one plugin (manager.py, git_source.py): install_git,         *)
(* update_git and the pruning of old revisions, install_local (adoption of *)
(* a staged plugin), enable, disable, a restart.  These operations move    *)
(* trees on the disk between their awaits, while the plugin runs from one  *)
(* of them and its plugin_state row names one of them.                     *)
(*                                                                         *)
(* A load is one step here: that its many awaits amount to a take-over or  *)
(* to nothing is what PluginManager shows (PluginService).                 *)
(***************************************************************************)
EXTENDS Naturals, FiniteSets, SequencesExt

CONSTANTS
  Owners,      \* tasks running commands; the dispatcher lets each sender run one
               \* /ub plugin command at a time
  Nobody,      \* nobody holds the manager's lock
  Broken,      \* versions that do not load
  MaxVersion,  \* bound on the versions published
  MaxOps,      \* bound on the commands given
  Keep,        \* GIT_KEEP_REVISIONS
  Worlds       \* what may happen, together: "git" or "adopt" for where the plugin
               \* comes from, "two" owners at once, "cancel" for a command past its
               \* time limit, "crash", "disk" for a copy that fails, "shipped" for a
               \* plugin of that name in the shipped tree

Nothing == 0
Versions == 1..MaxVersion
Shipped == MaxVersion + 1   \* the version in plugin_dir
Partial == MaxVersion + 2   \* a tree copied half-way
Trees == 0..Partial

ASSUME InstallAssumption ==
  /\ Nobody \notin Owners
  /\ MaxVersion \in Nat \ {0} /\ MaxOps \in Nat /\ Keep \in Nat \ {0}
  /\ Broken \subseteq Versions
  /\ Worlds \subseteq SUBSET {"git", "adopt", "two", "cancel", "crash", "disk", "shipped"}
  \* install_git() refuses the name of a plugin of the shipped tree.
  /\ \A w \in Worlds : "git" \in w => "shipped" \notin w

VARIABLES
  world,      \* the member of Worlds this is
  upstream,   \* the newest version: of the remote's HEAD, or in the staging directory
  revisions,  \* git-plugins/<name>/: the fetched commits, the oldest fetch first
  target,     \* installed_plugin_dir/<name>
  aside,      \* adopt-backup/<name>
  running,    \* what the plugin's runtime was loaded from
  row,        \* its plugin_state row
  disabled,   \* name \in _disabled
  lock,       \* who holds _lock through the fetch of install_git
  op,         \* what each owner's command is doing
  commands,   \* commands given
  booting,    \* the tree that load_all_local() is about to load, or Nothing
  crashes     \* processes that died

disk == <<revisions, target, aside>>
vars == <<world, upstream, disk, running, row, disabled, lock, op, commands, booting, crashes>>

Statuses == {"none", "active", "unloaded", "failed", "disabled"}
Kinds == {"none", "install", "update", "adopt", "enable", "disable", "reload"}
Steps == {"idle", "lock", "fetch", "unload", "load", "prune", "restore", "aside", "copy",
          "copying", "tidy", "clear", "return", "restored", "mark"}

Operation == [kind : Kinds, at : Steps, want : Trees, old : Trees, had : BOOLEAN,
              stale : SUBSET Versions, told : {"none", "ok", "error", "cancelled"}]

InstallTypeOK ==
  /\ world \in Worlds
  /\ upstream \in Versions
  /\ revisions \in Seq(Versions) /\ IsInjective(revisions)
  /\ target \in Trees /\ aside \in Trees /\ running \in Trees \ {Partial}
  /\ row \in [status : Statuses, ref : Versions \cup {Nothing}]
  /\ disabled \in BOOLEAN
  /\ lock \in Owners \cup {Nobody}
  /\ op \in [Owners -> Operation]
  /\ commands \in 0..MaxOps /\ booting \in Trees /\ crashes \in 0..1

Git == "git" \in world
NoOp(told) == [kind |-> "none", at |-> "idle", want |-> Nothing, old |-> Nothing,
               had |-> FALSE, stale |-> {}, told |-> told]

\* A machine on which version 1 was installed, or nothing yet.
Init ==
  /\ world \in Worlds
  /\ upstream = 1
  /\ \E installed \in {Nothing, 1} \ Broken :
       /\ running = IF installed = Nothing /\ "shipped" \in world THEN Shipped ELSE installed
       /\ revisions = IF Git /\ installed # Nothing THEN <<installed>> ELSE <<>>
       /\ target = IF Git THEN Nothing ELSE installed
       /\ row = [status |-> IF running = Nothing THEN "none" ELSE "active",
                 ref |-> IF Git THEN installed ELSE Nothing]
  /\ aside = Nothing
  /\ disabled = FALSE
  /\ lock = Nobody
  /\ op = [t \in Owners |-> NoOp("none")]
  /\ commands = 0
  /\ booting = Nothing
  /\ crashes = 0

----------------------------------------------------------------------------
(* What the operations share. *)

Goes(t, at) == op' = [op EXCEPT ![t].at = at]
Ends(t, told) == op' = [op EXCEPT ![t] = NoOp(told)]

\* local_path(): the shipped tree is looked at before the installed one.
LocalTree == IF "shipped" \in world THEN Shipped ELSE target

\* The tree at a path: of a Git revision, of the shipped plugin, of the installed one.
Tree(path) == IF Git /\ path \notin ToSet(revisions) THEN Nothing
              ELSE IF Git \/ path = Shipped THEN path ELSE target
Whole(tree) == tree \notin Broken \cup {Nothing, Partial}

Ref(path) == IF Git THEN path ELSE Nothing

\* _load_path() under _lock: the tree takes over, or fails and is recorded as failed.
Load(path) ==
  /\ lock = Nobody
  /\ IF Whole(Tree(path))
     THEN running' = Tree(path) /\ row' = [status |-> "active", ref |-> Ref(path)]
     ELSE row' = [status |-> "failed", ref |-> Ref(path)] /\ UNCHANGED running

\* unload(): the runtime goes and its row says so.
Unload ==
  /\ lock = Nobody
  /\ running' = Nothing
  /\ row' = IF running = Nothing THEN row
                                 ELSE [status |-> "unloaded", ref |-> Ref(running)]

----------------------------------------------------------------------------
(* The owners' commands. *)

\* Commands are taken when the plugins have been loaded; "two" lets a second owner
\* give one meanwhile.
MayBegin(t) ==
  /\ op[t].at = "idle" /\ commands < MaxOps /\ booting = Nothing
  /\ "two" \in world \/ \A u \in Owners : op[u].at = "idle"

Begin(t, kind, at, want) ==
  /\ MayBegin(t)
  /\ commands' = commands + 1
  /\ op' = [op EXCEPT ![t] = [NoOp("none") EXCEPT !.kind = kind, !.at = at, !.want = want,
                                                  !.old = running]]

\* install_git(url, ref): a branch name stands for the newest commit.
BeginInstall(t) ==
  /\ Git
  /\ Begin(t, "install", "lock", Nothing)
  /\ UNCHANGED <<world, upstream, disk, running, row, disabled, lock, booting, crashes>>

\* update_git(name, ref) of a plugin that runs: HEAD, or any commit by its name.
BeginUpdate(t, ref) ==
  /\ Git /\ running # Nothing /\ ref <= upstream
  /\ Begin(t, "update", "fetch", ref)
  /\ UNCHANGED <<world, upstream, disk, running, row, disabled, lock, booting, crashes>>

\* install_local(name) of a staged plugin that passes the review.
BeginAdopt(t) ==
  /\ ~Git
  /\ Begin(t, "adopt", IF running = Nothing THEN "aside" ELSE "unload", upstream)
  /\ UNCHANGED <<world, upstream, disk, running, row, disabled, lock, booting, crashes>>

\* /ub plugin reload of a local plugin.
BeginReload(t) ==
  /\ ~Git /\ ~disabled /\ LocalTree # Nothing
  /\ Begin(t, "reload", "load", LocalTree)
  /\ UNCHANGED <<world, upstream, disk, running, row, disabled, lock, booting, crashes>>

\* disable(): the name is marked at once.
BeginDisable(t) ==
  /\ row.status # "none" \/ LocalTree # Nothing
  /\ Begin(t, "disable", "unload", Nothing)
  /\ disabled' = TRUE
  /\ UNCHANGED <<world, upstream, disk, running, row, lock, booting, crashes>>

\* enable(): loads the local tree, or the revision the row names; without either
\* the name stays disabled.
BeginEnable(t) ==
  /\ IF Git /\ running # Nothing
     THEN /\ MayBegin(t) /\ Ends(t, "ok") /\ commands' = commands + 1
          /\ disabled' = FALSE
     ELSE LET tree == IF Git THEN row.ref ELSE LocalTree
          IN IF tree # Nothing /\ Tree(tree) # Nothing
             THEN Begin(t, "enable", "load", tree) /\ disabled' = FALSE
             ELSE /\ MayBegin(t) /\ Ends(t, "error") /\ commands' = commands + 1
                  /\ disabled' = TRUE
  /\ UNCHANGED <<world, upstream, disk, running, row, lock, booting, crashes>>

----------------------------------------------------------------------------
(* Fetching and pruning. *)

\* install_git() takes _lock for its fetch.
TakeLock(t) ==
  /\ op[t].at = "lock" /\ lock = Nobody
  /\ lock' = t
  /\ Goes(t, "fetch")
  /\ UNCHANGED <<world, upstream, disk, running, row, disabled, commands, booting, crashes>>

\* fetch(): the commit is resolved and moved to its place, unless it is there already,
\* with the place in the order that it had.
Fetch(t) ==
  /\ op[t].at = "fetch"
  /\ LET commit == IF op[t].want = Nothing THEN upstream ELSE op[t].want
         install == op[t].kind = "install"
         old == IF install THEN running ELSE op[t].old
     IN /\ revisions' = IF commit \in ToSet(revisions) THEN revisions
                                                       ELSE Append(revisions, commit)
        /\ op' = [op EXCEPT ![t].want = commit, ![t].old = old,
                            ![t].at = IF install /\ old = Nothing THEN "load" ELSE "unload"]
        /\ lock' = IF install THEN Nobody ELSE lock
  /\ UNCHANGED <<world, upstream, target, aside, running, row, disabled, commands, booting,
                 crashes>>

\* Git or the network fails, before anything was touched.
FetchFails(t) ==
  /\ op[t].at = "fetch"
  /\ lock' = IF op[t].kind = "install" THEN Nobody ELSE lock
  /\ Ends(t, "error")
  /\ UNCHANGED <<world, upstream, disk, running, row, disabled, commands, booting, crashes>>

\* The revisions beyond the last Keep fetched.
Excess == IF Len(revisions) <= Keep THEN {}
          ELSE ToSet(SubSeq(revisions, 1, Len(revisions) - Keep))

StaleAll(kept) == Excess
\* _prune_old_revisions() spares the one just loaded.
Stale(kept) == Excess \ {kept}

\* One more of them is removed, by a thread.
Prune(t) ==
  /\ op[t].at = "prune"
  /\ \/ /\ op[t].stale \cap ToSet(revisions) = {}
        /\ Ends(t, "ok") /\ UNCHANGED revisions
     \/ \E i \in DOMAIN revisions :
          /\ revisions[i] \in op[t].stale
          /\ revisions' = RemoveAt(revisions, i)
          /\ op' = [op EXCEPT ![t].stale = @ \ {revisions[i]}]
  /\ UNCHANGED <<world, upstream, target, aside, running, row, disabled, lock, commands,
                 booting, crashes>>
----------------------------------------------------------------------------
(* Unloading, loading, and what follows from a failure. *)

AfterUnload(kind) == CASE kind = "adopt" -> "aside"
                       [] kind = "disable" -> "mark"
                       [] OTHER -> "load"
UnloadStep(t) ==
  /\ op[t].at = "unload"
  /\ Unload
  /\ Goes(t, AfterUnload(op[t].kind))
  /\ UNCHANGED <<world, upstream, disk, disabled, lock, commands, booting, crashes>>

\* _mark_disabled().
MarkDisabled(t) ==
  /\ op[t].at = "mark"
  /\ row' = [row EXCEPT !.status = "disabled"]
  /\ Ends(t, "ok")
  /\ UNCHANGED <<world, upstream, disk, running, disabled, lock, commands, booting, crashes>>

\* Where a command goes when its load succeeded, and when it raised.
AfterLoad(t) ==
  CASE op[t].kind \in {"install", "update"} ->
         op' = [op EXCEPT ![t].at = "prune", ![t].stale = Stale(op[t].want)]
    [] op[t].kind = "adopt" -> Goes(t, "tidy")
    [] OTHER -> Ends(t, "ok")
AfterFailure(t) ==
  CASE op[t].kind \in {"install", "update"} -> Goes(t, "restore")
    [] op[t].kind = "adopt" -> Goes(t, "clear")
    [] OTHER -> Ends(t, "error")

\* The load of install_git, update_git, install_local, enable, reload; a name that was
\* disabled meanwhile is not loaded, which the first three report as an error.
LoadStep(t) ==
  /\ op[t].at = "load"
  /\ IF disabled
     THEN AfterFailure(t) /\ UNCHANGED <<running, row>>
     ELSE /\ Load(op[t].want)
          /\ IF Whole(Tree(op[t].want)) THEN AfterLoad(t) ELSE AfterFailure(t)
  /\ UNCHANGED <<world, upstream, disk, disabled, lock, commands, booting, crashes>>

RestoreSkipped(t) ==
  /\ op[t].at = "restore"
  /\ Ends(t, "error")
  /\ UNCHANGED <<world, upstream, disk, running, row, disabled, lock, commands, booting, crashes>>
\* except Exception of install_git() and update_git(): the revision that ran is loaded
\* again, if it is still there.
Restore(t) ==
  /\ op[t].at = "restore"
  /\ IF op[t].old # Nothing /\ Tree(op[t].old) # Nothing /\ ~disabled
     THEN Load(op[t].old) ELSE UNCHANGED <<running, row>>
  /\ Ends(t, "error")
  /\ UNCHANGED <<world, upstream, disk, disabled, lock, commands, booting, crashes>>
----------------------------------------------------------------------------
(* Adoption. *)

\* What shutil.move() makes of a backup that an interrupted adoption left: the tree
\* goes inside of it.
Beneath(tree) == IF aside = Nothing THEN tree ELSE aside

DeleteTarget(t) ==
  /\ op[t].at = "aside"
  /\ target' = Nothing /\ UNCHANGED aside
  /\ op' = [op EXCEPT ![t].had = FALSE, ![t].at = "copy"]
  /\ UNCHANGED <<world, upstream, revisions, running, row, disabled, lock, commands, booting,
                 crashes>>
\* The installed copy is moved aside, if there is one.
MoveAside(t) ==
  /\ op[t].at = "aside"
  /\ IF target = Nothing THEN UNCHANGED <<target, aside>>
                         ELSE target' = Nothing /\ aside' = Beneath(target)
  /\ op' = [op EXCEPT ![t].had = target # Nothing, ![t].at = "copy"]
  /\ UNCHANGED <<world, upstream, revisions, running, row, disabled, lock, commands, booting,
                 crashes>>
\* copytree() makes the directory and fills it.
CopyBegins(t) ==
  /\ op[t].at = "copy"
  /\ target' = Partial
  /\ Goes(t, "copying")
  /\ UNCHANGED <<world, upstream, revisions, aside, running, row, disabled, lock, commands,
                 booting, crashes>>
CopyEnds(t) ==
  /\ op[t].at = "copying"
  /\ target' = op[t].want
  /\ Goes(t, "load")
  /\ UNCHANGED <<world, upstream, revisions, aside, running, row, disabled, lock, commands,
                 booting, crashes>>

\* The disk is full: nothing catches that.
CopyFails(t) ==
  /\ "disk" \in world /\ op[t].at = "copying"
  /\ Ends(t, "error")
  /\ UNCHANGED <<world, upstream, disk, running, row, disabled, lock, commands, booting, crashes>>

\* The new version runs: the backup goes.
Tidy(t) ==
  /\ op[t].at = "tidy"
  /\ aside' = IF op[t].had THEN Nothing ELSE aside
  /\ Ends(t, "ok")
  /\ UNCHANGED <<world, upstream, revisions, target, running, row, disabled, lock, commands,
                 booting, crashes>>

\* _undo_failed_install(): the copy goes, the backup comes back and is loaded.
Clear(t) ==
  /\ op[t].at = "clear"
  /\ target' = Nothing
  /\ IF op[t].had THEN Goes(t, "return") ELSE Ends(t, "error")
  /\ UNCHANGED <<world, upstream, revisions, aside, running, row, disabled, lock, commands,
                 booting, crashes>>
Return(t) ==
  /\ op[t].at = "return"
  /\ target' = aside /\ aside' = Nothing
  /\ Goes(t, "restored")
  /\ UNCHANGED <<world, upstream, revisions, running, row, disabled, lock, commands, booting,
                 crashes>>
LoadReturned(t) ==
  /\ op[t].at = "restored"
  /\ IF disabled THEN UNCHANGED <<running, row>> ELSE Load(target)
  /\ Ends(t, "error")
  /\ UNCHANGED <<world, upstream, disk, disabled, lock, commands, booting, crashes>>

----------------------------------------------------------------------------
(* Cancellation, death and restart. *)

\* The command's time limit, or the end of the bot.  install_local() undoes a load that
\* was cancelled; install_git() and update_git() do not catch it, and nobody catches it
\* elsewhere.  A thread goes on with what it was doing.
Cancel(t) ==
  /\ "cancel" \in world
  /\ op[t].at # "idle" /\ op[t].told # "cancelled"
  /\ IF op[t].kind = "adopt" /\ op[t].at = "load"
     THEN op' = [op EXCEPT ![t].at = "clear", ![t].told = "cancelled"]
     ELSE Ends(t, "cancelled")
  /\ lock' = IF lock = t THEN Nobody ELSE lock
  /\ \/ op[t].at = "unload" /\ running' = Nothing   \* before the row was written
     \/ UNCHANGED running
  /\ target' = IF op[t].at = "copying" THEN op[t].want ELSE target
  /\ UNCHANGED <<world, upstream, revisions, aside, row, disabled, commands, booting, crashes>>

\* The process dies and another one starts: initialize_state(), load_all_local().
Crash ==
  /\ "crash" \in world /\ crashes = 0
  /\ crashes' = 1
  /\ running' = Nothing
  /\ disabled' = (row.status = "disabled")
  /\ booting' = IF row.status = "disabled" THEN Nothing
                ELSE IF ~Git THEN LocalTree
                ELSE IF row.status # "none" THEN Tree(row.ref) ELSE Nothing
  /\ op' = [t \in Owners |-> NoOp("none")]
  /\ lock' = Nobody
  /\ UNCHANGED <<world, upstream, disk, row, commands>>

Boot ==
  /\ booting # Nothing
  /\ Load(booting)
  /\ booting' = Nothing
  /\ UNCHANGED <<world, upstream, disk, disabled, lock, op, commands, crashes>>

\* A commit is pushed, or /ub ai new writes another version into the staging directory.
Publish ==
  /\ upstream < MaxVersion
  /\ upstream' = upstream + 1
  /\ UNCHANGED <<world, disk, running, row, disabled, lock, op, commands, booting, crashes>>

----------------------------------------------------------------------------
Step(t) ==
  \/ TakeLock(t) \/ Fetch(t) \/ FetchFails(t) \/ Prune(t)
  \/ UnloadStep(t) \/ MarkDisabled(t) \/ LoadStep(t) \/ Restore(t)
  \/ MoveAside(t) \/ CopyBegins(t) \/ CopyEnds(t) \/ CopyFails(t) \/ Tidy(t)
  \/ Clear(t) \/ Return(t) \/ LoadReturned(t)

Next ==
  \/ \E t \in Owners :
       \/ BeginInstall(t) \/ BeginAdopt(t) \/ BeginReload(t) \/ BeginDisable(t) \/ BeginEnable(t)
       \/ \E ref \in 0..MaxVersion : BeginUpdate(t, ref)
       \/ Step(t) \/ Cancel(t)
  \/ Crash \/ Boot \/ Publish

\* The event loop runs every command that can go on, and the start of the bot.
Fairness == (\A t \in Owners : WF_vars(Step(t))) /\ WF_vars(Boot)

Spec == Init /\ [][Next]_vars
FairSpec == Spec /\ Fairness

----------------------------------------------------------------------------
(* Properties. *)

Runs(tree) == tree # Nothing /\ running = tree

\* The revision a row names is there to be loaded by a restart or by enable(): pruning
\* and the order of fetches never take it away, while one owner gives the commands.
RecordedRevisionIsStaged ==
  Git /\ "two" \notin world /\ row.ref # Nothing => row.ref \in ToSet(revisions)

\* An update or an installation that is refused leaves the plugin running the revision
\* it ran before, and so does an adoption whose new version does not load, unless an
\* earlier adoption was interrupted.
FailureRestores ==
  [][\A t \in Owners :
       /\ op[t].kind \in {"install", "update", "adopt"} /\ op[t].old \in Versions
       /\ op[t].at # "idle" /\ op'[t].told = "error"
       /\ IF Git THEN "two" \notin world ELSE world = {"adopt"}
       => \/ running' = op[t].old
          \/ disabled]_vars

\* Once an adopted version has run, a version that loads is on the disk at every moment,
\* installed or aside, while one owner gives the commands, whenever copies fail or the
\* process dies.  (A copy that fails and a death, two deaths or two cancelled adoptions may
\* leave a backup that swallows the next one.)
WorkingCopyKept ==
  ~Git /\ world \cap {"two", "cancel"} = {} /\ ~({"crash", "disk"} \subseteq world) =>
    [](running \in Versions => [](Whole(target) \/ Whole(aside)))

----------------------------------------------------------------------------
(* What the code says of itself and does not keep. *)

\* "Put the outgoing version back, so a failed install costs nothing"
\* (_undo_failed_install, which the unloading, the move and the copy do not reach, and
\* which does not load the shipped plugin again).
FailedInstallCostsNothing ==
  [][\A t \in Owners :
       op[t].kind = "adopt" /\ op[t].old # Nothing /\ op'[t].told = "error" => running' = op[t].old]_vars

\* "A failed reload leaves the previously active version running" (README.md), though
\* update_git() does not catch the cancellation of a command past its time limit.
FailedReloadKeepsPrevious ==
  [][\A t \in Owners :
       op[t].kind = "update" /\ op'[t].told = "cancelled" => running' \in {running, op[t].old} \ {Nothing}]_vars

\* "Each plugin keeps the three most recently fetched revisions, so update <commit> is
\* also the rollback path" (README.md): the revision that runs is kept, whoever prunes.
RunningRevisionKept == Git /\ running # Nothing => running \in ToSet(revisions)

\* What ran when the process died runs again after the start, if nobody disabled it,
\* though a refused update has just been recorded in its place.
RestartRuns ==
  [][booting # Nothing /\ booting' = Nothing => running' # Nothing]_vars
=============================================================================
