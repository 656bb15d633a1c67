---------------------------- MODULE HostLifecycle ----------------------------
(***************************************************************************)
(* One host: the files of the state root, its two advisory locks, the      *)
(* socket, the executable, the daemons that run over them and the commands *)
(* (setup, ensure, stop, restart, update, reset, autostart) of concurrent  *)
(* terminals.  A lock belongs to an inode, not to a path: reset unlinks    *)
(* lifecycle.lock while it holds it.  Every step is a file-system or IPC   *)
(* operation another process can run between; a process may die anywhere.  *)
(*                                                                         *)
(* Data: an identity is a number (0: no key), a database is NoFile, Blank  *)
(* (migrated, no metadata row) or the identity in its metadata, config.toml*)
(* is present or not, a version is a number.                               *)
(***************************************************************************)
EXTENDS Integers, Sequences, FiniteSets

CONSTANTS Commands,    \* process numbers of the commands, above every daemon's
          Scripts,     \* the operations the commands run: functions on Commands
          Hosts,       \* the file systems a script may start from
          Budgets,     \* how many faults of each kind a behaviour may have
          MaxDaemons,  \* daemons ever started
          MaxInodes    \* lock files ever created

VARIABLES fs,      \* the state root, the runtime socket and the executable
          held,    \* inode of a lock file -> process that holds its lock
          cmd,     \* the commands
          dmn,     \* the daemons
          made,    \* inodes, identities and daemons made so far
          left,    \* the faults still to come
          stray    \* a daemon starts outside the lifecycle lock

vars == <<fs, held, cmd, dmn, made, left, stray>>

Daemons == 1..MaxDaemons
Nobody == 0
NoFile == -1
Blank == 0

----------------------------------------------------------------------------
(* Observations a process makes of the host.                               *)

\* probe_readiness: a listening daemon answers; a missing or refusing socket
\* is a stopped daemon.
Ready == fs.sock # 0 /\ dmn[fs.sock].pc = "serve"

\* inspect_existing_lock: the lock of the file now at the path, if there is one.
DaemonLockHeld == fs.own # 0 /\ held[fs.own] # Nobody

\* inspect_daemon_socket: the socket file, stale or not.
SocketPresent == fs.sock # 0

\* ensure_daemon_ownership_released.
OwnershipReleased == ~DaemonLockHeld /\ ~SocketPresent

\* validate_committed_files_exist.
FilesExist == fs.key # 0 /\ fs.config /\ fs.db # NoFile

\* validate_committed_setup: the three files exist and agree.
Committed == FilesExist /\ fs.db = fs.key

\* OperationService::observe: the daemon's word, else the files'.
Observed == IF Ready THEN "running" ELSE IF Committed THEN "stopped" ELSE
            IF FilesExist THEN "invalid" ELSE "unset"

\* identity_reset_preflight: the identity a reset would destroy.
Preflight == IF Ready THEN dmn[fs.sock].id ELSE fs.key

----------------------------------------------------------------------------
(* Processes.                                                              *)

Released(p) == [i \in DOMAIN held |-> IF held[i] = p THEN Nobody ELSE held[i]]
Goto(x, pc) == cmd' = [cmd EXCEPT ![x].pc = pc]
At(x, pc) == cmd[x].pc = pc

\* A command returns; its locks go with it.
Return(x, told) == /\ cmd' = [cmd EXCEPT ![x].pc = "done", ![x].told = told]
                   /\ held' = Released(x)

\* prepare_state_directories.
Prepared == [fs EXCEPT !.root = TRUE]

\* FileLock::try_acquire, first half: open the path, creating a missing file.
\* Without its directory the open fails.
Opened(field) == IF fs[field] # 0 THEN fs ELSE [fs EXCEPT ![field] = made.ino + 1]
MadeInode(field) == IF fs[field] # 0 THEN made ELSE [made EXCEPT !.ino = @ + 1]

Init ==
  /\ fs \in Hosts
  /\ held = [i \in 1..MaxInodes |-> IF i = fs.own THEN fs.sock ELSE Nobody]
  /\ \E s \in Scripts :
       cmd = [x \in Commands |->
                [op |-> s[x], pc |-> s[x], ino |-> 0, next |-> "", child |-> 0, want |-> 0,
                 conf |-> FALSE, ver |-> fs.exe, bak |-> 0, todo |-> <<>>, told |-> ""]]
  /\ dmn = [i \in Daemons |-> IF i = fs.sock
                              THEN [pc |-> "serve", ino |-> fs.own, db |-> fs.db, id |-> fs.key, ver |-> fs.exe]
                              ELSE [pc |-> "none", ino |-> 0, db |-> NoFile, id |-> 0, ver |-> 0]]
  /\ made = [ino |-> fs.own, id |-> fs.key, dmn |-> fs.sock]
  /\ left \in Budgets
  /\ stray = FALSE

----------------------------------------------------------------------------
(* The daemon: run_daemon_with_network_mode, run_owned_daemon_listener.    *)

Die(i) == /\ dmn' = [dmn EXCEPT ![i].pc = "dead"]
          /\ held' = Released(i)

\* prepare_state_directories: a daemon recreates a missing state root.
DaemonPrepares(i) ==
  /\ dmn[i].pc = "start"
  /\ fs' = Prepared
  /\ dmn' = [dmn EXCEPT ![i].pc = "open"]
  /\ UNCHANGED <<held, cmd, made, left, stray>>

DaemonOpensLock(i) ==
  /\ dmn[i].pc = "open"
  /\ IF fs.root
     THEN /\ fs' = Opened("own") /\ made' = MadeInode("own")
          /\ dmn' = [dmn EXCEPT ![i].pc = "lock", ![i].ino = fs'.own]
          /\ UNCHANGED held
     ELSE Die(i) /\ UNCHANGED <<fs, made>>
  /\ UNCHANGED <<cmd, left, stray>>

\* acquire_daemon_lock: a held lock is tried again until START_TIMEOUT.
DaemonLocks(i) ==
  /\ dmn[i].pc = "lock"
  /\ \/ /\ held[dmn[i].ino] = Nobody
        /\ held' = [held EXCEPT ![dmn[i].ino] = i]
        /\ dmn' = [dmn EXCEPT ![i].pc = "store"]
     \/ /\ held[dmn[i].ino] # Nobody
        /\ dmn' = [dmn EXCEPT ![i].pc = "open"] /\ UNCHANGED held
     \/ held[dmn[i].ino] # Nobody /\ Die(i)
  /\ UNCHANGED <<fs, cmd, made, left, stray>>

\* StateStore::open creates and migrates a missing database, before anything
\* of the setup was validated.
DaemonOpensStore(i) ==
  /\ dmn[i].pc = "store"
  /\ IF fs.root
     THEN /\ fs' = IF fs.db = NoFile THEN [fs EXCEPT !.db = Blank] ELSE fs
          /\ dmn' = [dmn EXCEPT ![i].pc = "check", ![i].db = fs'.db]
          /\ UNCHANGED held
     ELSE Die(i) /\ UNCHANGED fs
  /\ UNCHANGED <<cmd, made, left, stray>>

\* validate_committed_setup_with_store: paths exist, the open store's metadata
\* names the identity of the key file.
DaemonValidates(i) ==
  /\ dmn[i].pc = "check"
  /\ IF FilesExist /\ dmn[i].db = fs.key
     THEN dmn' = [dmn EXCEPT ![i].pc = "bind", ![i].id = fs.key] /\ UNCHANGED held
     ELSE Die(i)
  /\ UNCHANGED <<fs, cmd, made, left, stray>>

\* bind_owned_daemon_socket: a socket that accepts a connection is another
\* daemon; a refusing one is stale and replaced.
DaemonBinds(i) ==
  /\ dmn[i].pc = "bind"
  /\ IF Ready
     THEN Die(i) /\ UNCHANGED fs
     ELSE /\ fs' = [fs EXCEPT !.sock = i]
          /\ dmn' = [dmn EXCEPT ![i].pc = "serve"]
          /\ UNCHANGED held
  /\ UNCHANGED <<cmd, made, left, stray>>

\* The listener is gone and the sessions' cleanup failed: the daemon keeps its
\* lock and binds again, over no socket or over its own (rebind_owned_daemon_socket);
\* while another's is there it tries again.
DaemonRebinds(i) ==
  /\ dmn[i].pc = "cleanup" /\ left.rebind > 0
  /\ fs.sock \in {0, i}
  /\ left' = [left EXCEPT !.rebind = @ - 1]
  /\ fs' = [fs EXCEPT !.sock = i]
  /\ dmn' = [dmn EXCEPT ![i].pc = "serve"]
  /\ UNCHANGED <<held, cmd, made, stray>>

\* remove_owned_daemon_socket: only the socket file this daemon bound.
SocketRemoved(i) == [fs EXCEPT !.sock = IF @ = i THEN 0 ELSE @]

\* The cleanup is complete: the daemon removes its socket and exits.
DaemonExits(i) ==
  /\ dmn[i].pc = "cleanup"
  /\ fs' = SocketRemoved(i)
  /\ Die(i)
  /\ UNCHANGED <<cmd, made, left, stray>>

\* The process is killed: locks are released, files and the socket stay.
DaemonCrashes(i) ==
  /\ dmn[i].pc \notin {"none", "dead"} /\ left.crash > 0
  /\ left' = [left EXCEPT !.crash = @ - 1]
  /\ Die(i)
  /\ UNCHANGED <<fs, cmd, made, stray>>

\* The login manager starts the foreground daemon of an enabled autostart; no
\* lifecycle lock is involved.
LoginStarts(i) ==
  /\ left.login > 0 /\ fs.auto /\ i = made.dmn + 1
  /\ left' = [left EXCEPT !.login = @ - 1]
  /\ dmn' = [dmn EXCEPT ![i].pc = "start", ![i].ver = fs.exe]
  /\ made' = [made EXCEPT !.dmn = i]
  /\ stray' = TRUE
  /\ UNCHANGED <<fs, held, cmd>>

----------------------------------------------------------------------------
(* The lifecycle lock, for every command that takes it: cmd.next is where  *)
(* it continues.                                                           *)

LockOpens(x) ==
  /\ At(x, "lock_open")
  /\ IF fs.root
     THEN /\ fs' = Opened("life") /\ made' = MadeInode("life")
          /\ cmd' = [cmd EXCEPT ![x].pc = "lock_try", ![x].ino = fs'.life]
          /\ UNCHANGED held
     ELSE Return(x, "error") /\ UNCHANGED <<fs, made>>
  /\ UNCHANGED <<dmn, left, stray>>

\* A held lock is tried again, from the open, until START_TIMEOUT.
LockTries(x) ==
  /\ At(x, "lock_try")
  /\ \/ /\ held[cmd[x].ino] = Nobody
        /\ held' = [held EXCEPT ![cmd[x].ino] = x]
        /\ Goto(x, cmd[x].next)
     \/ held[cmd[x].ino] # Nobody /\ Goto(x, "lock_open") /\ UNCHANGED held
     \/ held[cmd[x].ino] # Nobody /\ Return(x, "error")
  /\ UNCHANGED <<fs, dmn, made, left, stray>>

----------------------------------------------------------------------------
(* ensure_daemon_with: start at most one daemon.                           *)

\* ensure_configured_daemon observes the setup first; a reconnecting terminal
\* (RuntimeDaemonRestarter) does not.
Observes(x) ==
  /\ At(x, "ensure")
  /\ IF Observed \in {"running", "stopped"} THEN Goto(x, "probe") /\ UNCHANGED held
     ELSE Return(x, "error")
  /\ UNCHANGED <<fs, dmn, made, left, stray>>

Probes(x) ==
  /\ cmd[x].pc \in {"probe", "restarter"}
  /\ IF Ready
     THEN Return(x, "ok") /\ UNCHANGED fs
     ELSE /\ fs' = Prepared
          /\ cmd' = [cmd EXCEPT ![x].pc = "lock_open", ![x].next = "spawn"]
          /\ UNCHANGED held
  /\ UNCHANGED <<dmn, made, left, stray>>

\* Under the lock: look again, then start the detached child (which prepares
\* the directories once more).
Spawns(x) ==
  /\ At(x, "spawn")
  /\ IF Ready
     THEN Return(x, "ok") /\ UNCHANGED <<fs, dmn, made>>
     ELSE /\ made.dmn < MaxDaemons
          /\ fs' = Prepared
          /\ made' = [made EXCEPT !.dmn = @ + 1]
          /\ dmn' = [dmn EXCEPT ![made'.dmn].pc = "start", ![made'.dmn].ver = fs.exe]
          /\ cmd' = [cmd EXCEPT ![x].pc = "await", ![x].child = made'.dmn]
          /\ UNCHANGED held
  /\ UNCHANGED <<left, stray>>

\* The lock is kept until the child answers or has exited.  An updated setup
\* must answer with the installed version (finish_update_startup).
Awaits(x) ==
  /\ At(x, "await")
  /\ \/ Ready /\ Return(x, IF cmd[x].op # "update" \/ dmn[fs.sock].ver = fs.exe THEN "ok" ELSE "error")
     \/ ~Ready /\ dmn[cmd[x].child].pc = "dead" /\ Return(x, "error")
  /\ UNCHANGED <<fs, dmn, made, left, stray>>

\* A command is interrupted, times out or fails at any step: its process ends,
\* its locks are free, what it wrote stays.
Aborts(x) ==
  /\ left.abort > 0 /\ ~At(x, "done") /\ cmd[x].pc # cmd[x].op
  /\ left' = [left EXCEPT !.abort = @ - 1]
  /\ Return(x, "abort")
  /\ stray' = (stray \/ (At(x, "await") /\ dmn[cmd[x].child].pc # "dead"))
  /\ UNCHANGED <<fs, dmn, made>>

----------------------------------------------------------------------------
(* setup: apply_setup and bootstrap_with_lock_held.                        *)

SetupBegins(x) ==
  /\ At(x, "setup")
  /\ fs' = Prepared
  /\ cmd' = [cmd EXCEPT ![x].pc = "lock_open", ![x].next = "saved"]
  /\ UNCHANGED <<held, dmn, made, left, stray>>

\* saved_setup_config: complete files return at once; a running daemon validates
\* the request instead of a second process opening its database.
SetupReads(x) ==
  /\ At(x, "saved")
  /\ CASE FilesExist -> Return(x, IF Committed THEN "ok" ELSE "error")
       [] Ready -> Return(x, IF fs.config THEN "ok" ELSE "error")
       [] OTHER -> Goto(x, "key") /\ UNCHANGED held
  /\ UNCHANGED <<fs, dmn, made, left, stray>>

\* A lost key beside other state is not replaced: "refusing identity rotation".
RefusesRotation == fs.key = 0 /\ (fs.config \/ fs.db # NoFile)

SetupKeys(x) ==
  /\ At(x, "key")
  /\ IF RefusesRotation \/ ~fs.root
     THEN Return(x, "refused") /\ UNCHANGED <<fs, made>>
     ELSE /\ fs' = IF fs.key = 0 THEN [fs EXCEPT !.key = made.id + 1] ELSE fs
          /\ made' = IF fs.key = 0 THEN [made EXCEPT !.id = @ + 1] ELSE made
          /\ Goto(x, "db") /\ UNCHANGED held
  /\ UNCHANGED <<dmn, left, stray>>

SetupStores(x) ==
  /\ At(x, "db")
  /\ IF ~fs.root \/ fs.db \notin {NoFile, Blank, fs.key} \/ fs.key = 0
     THEN Return(x, "error") /\ UNCHANGED fs
     ELSE fs' = [fs EXCEPT !.db = fs.key] /\ Goto(x, "config") /\ UNCHANGED held
  /\ UNCHANGED <<dmn, made, left, stray>>

\* config.toml is written last and is the commit; then the lock is dropped and
\* a daemon ensured.
SetupCommits(x) ==
  /\ At(x, "config")
  /\ IF fs.root
     THEN /\ fs' = [fs EXCEPT !.config = TRUE]
          /\ held' = Released(x)
          /\ Goto(x, "probe")
     ELSE Return(x, "error") /\ UNCHANGED fs
  /\ UNCHANGED <<dmn, made, left, stray>>

----------------------------------------------------------------------------
(* stop, restart and the stop of update and reset: hand_off_and_stop after *)
(* the hand-off, wait_until_stopped, wait_until_identity_reset_stop.       *)

AfterStop(op) == CASE op = "stop"    -> "done"
                   [] op = "restart" -> "probe"
                   [] op = "update"  -> "guard"
                   [] op = "reset"   -> "reset_wait"

\* restart validates the setup; update refuses a daemon of another version.
StopBegins(x) ==
  /\ cmd[x].pc \in {"stop", "restart", "update"}
  /\ IF \/ At(x, "restart") /\ Observed \notin {"running", "stopped"}
        \/ At(x, "update") /\ Ready /\ dmn[fs.sock].ver # cmd[x].ver
     THEN Return(x, "error")
     ELSE cmd' = [cmd EXCEPT ![x].pc = IF Ready THEN "ask" ELSE "stopped"] /\ UNCHANGED held
  /\ UNCHANGED <<fs, dmn, made, left, stray>>

\* The stop request: the daemon answers "stopping" and leaves its listener.
Asks(x) ==
  /\ At(x, "ask")
  /\ IF Ready
     THEN dmn' = [dmn EXCEPT ![fs.sock].pc = "cleanup"] /\ Goto(x, "wait")
     ELSE Goto(x, "stopped") /\ UNCHANGED dmn
  /\ UNCHANGED <<fs, held, made, left, stray>>

Waits(x) ==
  /\ At(x, "wait") /\ OwnershipReleased
  /\ Goto(x, "stopped")
  /\ UNCHANGED <<fs, held, dmn, made, left, stray>>

Stops(x) ==
  /\ At(x, "stopped")
  /\ IF AfterStop(cmd[x].op) = "done" THEN Return(x, "ok")
     ELSE Goto(x, AfterStop(cmd[x].op)) /\ UNCHANGED held
  /\ UNCHANGED <<fs, dmn, made, left, stray>>

----------------------------------------------------------------------------
(* update: apply_prepared_update after the stop.                           *)

\* Mutant: no lifecycle lock.
UpdateUnguarded(x) ==
  /\ At(x, "guard")
  /\ Goto(x, "verify")
  /\ UNCHANGED <<fs, held, dmn, made, left, stray>>

\* Only a host with a state root has a lifecycle lock to take.
UpdateGuards(x) ==
  /\ At(x, "guard")
  /\ cmd' = IF fs.root THEN [cmd EXCEPT ![x].pc = "lock_open", ![x].next = "recheck"]
            ELSE [cmd EXCEPT ![x].pc = "verify"]
  /\ UNCHANGED <<fs, held, dmn, made, left, stray>>

UpdateRechecks(x) ==
  /\ At(x, "recheck")
  /\ IF ~Ready /\ OwnershipReleased THEN Goto(x, "verify") /\ UNCHANGED held
     ELSE Return(x, "error")
  /\ UNCHANGED <<fs, dmn, made, left, stray>>

\* verify_updater_executable: the file is still the updater's own version; its
\* candidate is the next one.
UpdateVerifies(x) ==
  /\ At(x, "verify")
  /\ IF fs.exe = cmd[x].ver THEN Goto(x, "activate") /\ UNCHANGED held
     ELSE Return(x, "error")
  /\ UNCHANGED <<fs, dmn, made, left, stray>>

\* activate_executable renames the candidate over the file, rollback the backup.
Activated(x) == [fs EXCEPT !.exe = cmd[x].ver + 1]
RolledBack(x) == [fs EXCEPT !.exe = cmd[x].bak]

\* A hard link keeps the old file beside the activated one.
UpdateActivates(x) ==
  /\ At(x, "activate")
  /\ cmd' = [cmd EXCEPT ![x].pc = "activated", ![x].bak = fs.exe]
  /\ fs' = Activated(x)
  /\ UNCHANGED <<held, dmn, made, left, stray>>

\* The activated file runs its self check and the install record is written, or
\* the backup is renamed back.
UpdateSettles(x) ==
  /\ At(x, "activated")
  /\ \/ /\ fs.exe = cmd[x].ver + 1
        /\ cmd' = [cmd EXCEPT ![x].pc = "committed", ![x].bak = 0]
        /\ held' = Released(x) /\ UNCHANGED <<fs, left>>
     \/ /\ left.check > 0 \/ fs.exe # cmd[x].ver + 1
        /\ left' = [left EXCEPT !.check = IF @ > 0 THEN @ - 1 ELSE 0]
        /\ fs' = RolledBack(x)
        /\ Return(x, "error")
  /\ UNCHANGED <<dmn, made, stray>>

\* finish_update_startup: a configured host gets its daemon back.
UpdateFinishes(x) ==
  /\ At(x, "committed")
  /\ CASE Observed = "unset"   -> Return(x, "ok")
       [] Observed = "invalid" -> Return(x, "error")
       [] OTHER -> Goto(x, "probe") /\ UNCHANGED held
  /\ UNCHANGED <<fs, dmn, made, left, stray>>

----------------------------------------------------------------------------
(* reset: reset_identity_with_stop_timeout, remove_managed_state_root.     *)

\* The first preflight is what the user confirms.
ResetConfirms(x) ==
  /\ At(x, "reset")
  /\ Observed # "invalid"
  /\ cmd' = [cmd EXCEPT ![x].pc = "reset_begin", ![x].want = Preflight]
  /\ UNCHANGED <<fs, held, dmn, made, left, stray>>

\* The second preflight, which also says whether the host is configured.  A
\* daemon with sessions is not stopped without force
\* (require_identity_reset_session_force).
ResetBegins(x) ==
  /\ At(x, "reset_begin")
  /\ CASE ~fs.root /\ ~Ready -> Return(x, "ok") /\ fs' = [fs EXCEPT !.auto = FALSE]
       [] (fs.root \/ Ready) /\ (Preflight # cmd[x].want \/ Observed = "invalid") -> Return(x, "error") /\ UNCHANGED fs
       [] OTHER ->
            /\ \/ /\ cmd' = [cmd EXCEPT ![x].pc = IF Ready THEN "ask" ELSE "stopped",
                                       ![x].conf = Observed # "unset"]
                  /\ UNCHANGED held
               \/ Ready /\ Return(x, "error")
            /\ UNCHANGED fs
  /\ UNCHANGED <<dmn, made, left, stray>>

ResetWaits(x) ==
  /\ At(x, "reset_wait") /\ OwnershipReleased
  /\ IF fs.root
     THEN cmd' = [cmd EXCEPT ![x].pc = "lock_open", ![x].next = "reset_check"] /\ UNCHANGED held
     ELSE Return(x, "ok")
  /\ UNCHANGED <<fs, dmn, made, left, stray>>

\* Mutant: the daemon is not looked for again under the lock.
ResetChecksKey(x) ==
  /\ At(x, "reset_check")
  /\ IF fs.key = cmd[x].want /\ (cmd[x].conf => Committed) THEN Goto(x, "reset_list") /\ UNCHANGED held
     ELSE Return(x, "error")
  /\ UNCHANGED <<fs, dmn, made, left, stray>>

\* Under the lock the daemon must be gone, the identity be the confirmed one and
\* a configured setup still be whole.
ResetChecks(x) ==
  /\ At(x, "reset_check")
  /\ IF /\ ~Ready /\ OwnershipReleased
        /\ fs.key = cmd[x].want /\ (cmd[x].conf => Committed)
     THEN Goto(x, "reset_list") /\ UNCHANGED held
     ELSE Return(x, "error")
  /\ UNCHANGED <<fs, dmn, made, left, stray>>

\* The autostart goes first; then the directory is listed once, and its files
\* are unlinked in the order of their names, lifecycle.lock last.
Present == LET here(f) == CASE f = "config" -> fs.config
                            [] f = "own"    -> fs.own # 0
                            [] f = "key"    -> fs.key # 0
                            [] f = "db"     -> fs.db # NoFile
                            [] f = "life"   -> fs.life # 0
           IN SelectSeq(<<"config", "own", "key", "db", "life">>, here)

ResetLists(x) ==
  /\ At(x, "reset_list")
  /\ fs' = [fs EXCEPT !.auto = FALSE]
  /\ cmd' = [cmd EXCEPT ![x].pc = "unlink", ![x].todo = Present]
  /\ UNCHANGED <<held, dmn, made, left, stray>>

ResetUnlinks(x) ==
  /\ At(x, "unlink") /\ cmd[x].todo # <<>>
  /\ fs' = [fs EXCEPT ![Head(cmd[x].todo)] =
              CASE Head(cmd[x].todo) = "config" -> FALSE
                [] Head(cmd[x].todo) = "db" -> NoFile
                [] OTHER -> 0]
  /\ cmd' = [cmd EXCEPT ![x].todo = Tail(@)]
  /\ UNCHANGED <<held, dmn, made, left, stray>>

\* rmdir refuses a directory another process has written into meanwhile.
ResetEnds(x) ==
  /\ At(x, "unlink") /\ cmd[x].todo = <<>>
  /\ IF Present = <<>>
     THEN fs' = [fs EXCEPT !.root = FALSE] /\ Return(x, "removed")
     ELSE UNCHANGED fs /\ Return(x, "error")
  /\ UNCHANGED <<dmn, made, left, stray>>

----------------------------------------------------------------------------
(* autostart_enable: the setup is validated before and under the lock.     *)

EnableBegins(x) ==
  /\ At(x, "enable")
  /\ IF Committed
     THEN cmd' = [cmd EXCEPT ![x].pc = "lock_open", ![x].next = "enable_write"] /\ UNCHANGED held
     ELSE Return(x, "error")
  /\ UNCHANGED <<fs, dmn, made, left, stray>>

EnableWrites(x) ==
  /\ At(x, "enable_write")
  /\ fs' = IF Committed THEN [fs EXCEPT !.auto = TRUE] ELSE fs
  /\ Return(x, IF Committed THEN "ok" ELSE "error")
  /\ UNCHANGED <<dmn, made, left, stray>>

----------------------------------------------------------------------------

DaemonStep(i) == \/ DaemonPrepares(i) \/ DaemonOpensLock(i) \/ DaemonLocks(i)
                 \/ DaemonOpensStore(i) \/ DaemonValidates(i) \/ DaemonBinds(i)
                 \/ DaemonRebinds(i) \/ DaemonExits(i) \/ DaemonCrashes(i) \/ LoginStarts(i)

CommandStep(x) == \/ LockOpens(x) \/ LockTries(x) \/ Observes(x) \/ Probes(x) \/ Spawns(x)
                  \/ Awaits(x) \/ Aborts(x)
                  \/ SetupBegins(x) \/ SetupReads(x) \/ SetupKeys(x) \/ SetupStores(x) \/ SetupCommits(x)
                  \/ StopBegins(x) \/ Asks(x) \/ Waits(x) \/ Stops(x)
                  \/ UpdateGuards(x) \/ UpdateRechecks(x) \/ UpdateVerifies(x)
                  \/ UpdateActivates(x) \/ UpdateSettles(x) \/ UpdateFinishes(x)
                  \/ ResetConfirms(x) \/ ResetBegins(x) \/ ResetWaits(x) \/ ResetChecks(x)
                  \/ ResetLists(x) \/ ResetUnlinks(x) \/ ResetEnds(x)
                  \/ EnableBegins(x) \/ EnableWrites(x)

Next == (\E i \in Daemons : DaemonStep(i)) \/ (\E x \in Commands : CommandStep(x))

Spec == Init /\ [][Next]_vars

----------------------------------------------------------------------------
(* Properties.                                                             *)

Serving == {i \in Daemons : dmn[i].pc = "serve"}

\* The daemon lock, the socket check and reset's rechecks under the lifecycle
\* lock keep one daemon per host, and the daemon that serves is the one of the
\* identity on disk: unless a reset runs while a daemon starts outside the
\* lifecycle lock (a login start, or the child of an interrupted ensure).
ServesDisk ==
  (stray => \A x \in Commands : cmd[x].op # "reset") =>
    /\ Cardinality(Serving) <= 1
    /\ \A i \in Serving : dmn[i].id = fs.key

\* An executable an update committed and reported is never taken back: not by
\* the roll-back of another update, which only a host with a state root
\* serialises.
CommittedStays ==
  [][\A x \in Commands :
       (cmd[x].op = "update" /\ (At(x, "committed") \/ cmd[x].told = "ok") /\ fs.root) => fs'.exe >= cmd[x].ver + 1]_vars

\* remove_managed_state_root destroys exactly the identity the user confirmed:
\* while a reset unlinks, the key is that identity's or already gone.
ResetsConfirmed ==
  \A x \in Commands : At(x, "unlink") /\ cmd[x].todo # <<>> => fs.key \in {cmd[x].want, 0}

\* "After reset, run `voytty setup` to create a different identity": once a
\* reset reported the state removed and nothing runs any more, setup is not
\* refused for a lost key.
ResetThenSetup ==
  /\ \E x \in Commands : cmd[x].told = "removed"
  /\ \A x \in Commands : At(x, "done") /\ cmd[x].told # "abort"
  /\ \A i \in Daemons : dmn[i].pc \in {"none", "dead"}
  => ~RefusesRotation
=============================================================================
