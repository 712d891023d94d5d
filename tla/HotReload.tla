----------------------------- MODULE HotReload -----------------------------
(***************************************************************************)
(* From the configuration files to the running proxies and their firewall  *)
(* rules: internal/config/watcher.go and save.go, the start-up, the        *)
(* watcher's consumer and the hooks of cmd/routex/main.go, and the API     *)
(* handlers of internal/api that write files or start and stop proxies.    *)
(*                                                                         *)
(* The manager appears as its callers see it when they take turns on a     *)
(* name (ProxyManager has it in full): the entry of a name in its map, the *)
(* two hooks, the sockets its instances hold, and a build that may fail    *)
(* (before it has bound a socket: ProxyManager has what a later failure    *)
(* leaves behind).  A loaded configuration keeps the path it came from, in *)
(* the spelling of whoever loaded it.                                      *)
(***************************************************************************)
EXTENDS Firewall

CONSTANTS
    Paths,        \* files of the proxies directory
    Canonical,    \* ProxyFileName: the file of a proxy created by the API
    Sockets,      \* addresses, ports and protocols a listener can bind
    Configs,      \* configurations that pass validation
    Broken,       \* the text of a file that does not parse or validate
    InitialFiles, \* what the directory may hold at the start: path -> text
    Edits,        \* <<path, text>>: what users do to files; None removes one
    Main,         \* main's goroutine, then the watcher's consumer
    Handlers,     \* API requests in progress
    RelativeDir,  \* the -proxies flag is a relative path, as its default is
    OutCap,       \* capacity of Watcher.out (16 in the code)
    MaxEdits,     \* bound: edits by users
    MaxRequests   \* bound: API requests

ConfigType ==
    [name : Names, enabled : BOOLEAN, good : BOOLEAN, protocol : {"tcp", "udp", "tcp-udp"},
     ports : STRING, sockets : SUBSET Sockets, limits : [AllKinds -> Nat]]
ASSUME ConfigsAssumption == Configs \subseteq ConfigType

ASSUME MainAssumption == Main \notin Handlers
Actors == Handlers \union {Main}
Switched(cf, on) == [cf EXCEPT !.enabled = on]
Texts ==
    (UNION {{cf, Switched(cf, TRUE), Switched(cf, FALSE)} : cf \in Configs}) \union {Broken, None}
IsConfig(text) == text \notin {Broken, None}
ConfigTexts == {text \in Texts : IsConfig(text)}

\* How LoadProxyDir and SaveProxy spell a file, and how the watcher does.
Listed(f) == [file |-> f, absolute |-> ~ RelativeDir]
Watched(f) == [file |-> f, absolute |-> TRUE]
Spelled == [file : Paths, absolute : BOOLEAN]
Loaded == [cf : ConfigTexts, path : Spelled]

ASSUME FilesAssumption == InitialFiles \subseteq [Paths -> Texts] /\ Canonical \in [Names -> Paths]
ASSUME NoneAssumption ==
    /\ {None, Broken} \intersect ConfigType = {}
    /\ None \notin Names \union Spelled \union Loaded \union {"DROP", Broken}
    /\ \A cf \in Configs : None # BuildRules(cf)
ASSUME RelativeAssumption == RelativeDir \in BOOLEAN
ASSUME CapAssumption == OutCap \in Nat

VARIABLES
    disk,       \* the text of each file, None if there is none
    watching,   \* the watcher exists
    events,     \* fsnotify events run() has not handled
    pending,    \* paths with a debounce timer that has not been superseded
    emitting,   \* updates whose timer has fired and that wait for room in out
    out,        \* Watcher.out
    running,    \* Manager.instances: name -> the Instance.Config of it, or None
    pc, job,    \* where each actor is, its arguments and locals
    edits, requests,  \* how many there have been
    overlapped, \* history: names two actors worked on at a time
    bare,       \* history: proxies flushed by the API, or not wholly applied, since they started
    closing,    \* the configuration of the instance an actor has taken out and not stopped
    lost,       \* those of running instances that another of the name has overwritten
    refused,    \* history: names whose last start failed although the configuration is good
    named,      \* history: the names each file has given its proxy
    missed      \* history: files whose last change the watcher has not seen or has dropped

fileVars == <<disk, events, named, missed>>
watchVars == <<watching, pending, emitting, out>>
sockVars == <<closing, lost, refused>>
bounds == <<edits, requests>>
vars == <<fileVars, watchVars, running, pc, job, bounds, overlapped, bare, sockVars, fwVars>>

NoJob == [op |-> "none", name |-> None, path |-> None, save |-> None, cf |-> None,
          todo |-> {}, onDisk |-> {}]

Ops == {"none", "boot", "update", "remove", "toggle", "create", "replace", "delete", "reload",
        "reloadAll", "reloadSweep"}
Pcs == {"next", "watch", "consume", "idle", "save", "stop", "flush", "start", "apply", "unlink"}
OrNone(S) == S \union {None}
Items == [name : Names, path : OrNone(Spelled), cf : OrNone(ConfigTexts)]
JobType == [op : Ops, name : OrNone(Names), path : OrNone(Spelled), save : Texts,
            cf : OrNone(ConfigTexts), todo : SUBSET Items, onDisk : SUBSET Names]
Changes == [path : Paths, op : {"update", "remove"}]

TypeOK ==
    /\ disk \in [Paths -> Texts] /\ watching \in BOOLEAN
    /\ events \in Seq(Changes) /\ out \in Seq(Changes) /\ Len(out) <= OutCap
    /\ pending \subseteq Paths /\ emitting \in [Paths -> Nat]
    /\ running \in [Names -> OrNone(Loaded)]
    /\ \A n \in Names : running[n] # None => running[n].cf.name = n
    /\ pc \in [Actors -> Pcs]
    /\ job \in [Actors -> JobType]
    /\ \A a \in Actors :
        pc[a] \in {"save", "stop", "flush", "start", "apply", "unlink"} => job[a].name # None
    /\ overlapped \subseteq Names /\ bare \subseteq Names /\ missed \subseteq Paths
    /\ named \in [Paths -> SUBSET Names]
    /\ closing \in [Actors -> OrNone(ConfigTexts)]
    /\ lost \subseteq ConfigTexts /\ refused \subseteq Names

-----------------------------------------------------------------------------
(* Files *)

\* The text of a file changes; fsnotify reports it if the watcher exists.
WriteFile(f, text) ==
    /\ disk' = [disk EXCEPT ![f] = text]
    /\ named' = [named EXCEPT ![f] = IF IsConfig(text) THEN @ \union {text.name} ELSE @]
    /\ events' = IF watching
                 THEN Append(events, [path |-> f, op |-> IF text = None THEN "remove" ELSE "update"])
                 ELSE events
    /\ missed' = IF watching THEN missed \ {f} ELSE missed \union {f}

\* LoadProxyDir, one item of work per file that parses: start it or, if it is
\* disabled, stop it.
Work(f) ==
    [name |-> disk[f].name, path |-> Listed(f), cf |-> IF disk[f].enabled THEN disk[f] ELSE None]
LoadedWork == {Work(f) : f \in {g \in Paths : IsConfig(disk[g])}}

\* resolveProxyConfig: the running instance's own configuration, else a file's.
Resolve(n) ==
    IF running[n] # None THEN {running[n]}
    ELSE {[cf |-> disk[f], path |-> Listed(f)] : f \in {g \in Paths : IsConfig(disk[g]) /\ disk[g].name = n}}

-----------------------------------------------------------------------------
(* Calls on the manager *)

Goto(a, l) == pc' = [pc EXCEPT ![a] = l]
Home(a) == IF a = Main THEN IF job[a].op = "boot" THEN "watch" ELSE "consume" ELSE "idle"

\* Names an actor may act on.
Touches(a) ==
    IF pc[a] \in {"idle", "consume", "watch"} THEN {}
    ELSE IF job[a].op \in {"boot", "reloadAll", "reloadSweep"} THEN Names ELSE {job[a].name}

Busy(n) == \E a \in Actors : n \in Touches(a)

NoteOverlap(a, names) ==
    overlapped' = overlapped \union {n \in names : \E b \in Actors \ {a} : n \in Touches(b)}

Begin(a, l, j) ==
    /\ Goto(a, l)
    /\ job' = [job EXCEPT ![a] = j]
    /\ NoteOverlap(a, IF j.op = "reloadAll" THEN Names ELSE {j.name})

\* One item of work is over: the next one, or the actor is done.
Leave(a) ==
    IF job[a].todo # {} \/ job[a].op \in {"boot", "reloadAll"}
    THEN Goto(a, "next") /\ UNCHANGED job
    ELSE Goto(a, Home(a)) /\ job' = [job EXCEPT ![a] = NoJob]

AfterStop(a) ==
    IF job[a].cf # None THEN Goto(a, "start") /\ UNCHANGED job
    ELSE IF job[a].op = "delete" THEN Goto(a, "unlink") /\ UNCHANGED job
    ELSE Leave(a)

\* Manager.Stop, also the first half of Manager.Start: take the entry out ...
Stop(a) ==
    LET n == job[a].name IN
    /\ pc[a] = "stop"
    /\ IF running[n] = None
       THEN AfterStop(a) /\ UNCHANGED <<running, closing>>
       ELSE /\ running' = [running EXCEPT ![n] = None]
            /\ closing' = [closing EXCEPT ![a] = running[n].cf]
            /\ Goto(a, "flush") /\ UNCHANGED job
    /\ UNCHANGED <<fileVars, watchVars, bounds, overlapped, bare, lost, refused, fwVars>>

\* Faults (operators named Fault...) are plausible bugs of the operator after
\* them; each breaks a property below.  No specification uses them.
FaultFlushSkipped(a) ==
    /\ pc[a] = "flush"
    /\ closing' = [closing EXCEPT ![a] = None]
    /\ AfterStop(a)
    /\ UNCHANGED <<fileVars, watchVars, running, bounds, overlapped, bare, lost, refused, fwVars>>

\* ... then the stop hook and Instance.Stop, which frees the sockets.
Flush(a) ==
    /\ pc[a] = "flush"
    /\ FlushProxy(job[a].name)
    /\ closing' = [closing EXCEPT ![a] = None]
    /\ AfterStop(a)
    /\ UNCHANGED <<fileVars, watchVars, running, bounds, overlapped, bare, lost, refused>>

\* Nothing the process still has open is bound to a socket of the configuration.
Open ==
    {running[n].cf : n \in {m \in Names : running[m] # None}} \union lost
        \union {closing[a] : a \in {b \in Actors : closing[b] # None}}
Unbound(cf) == \A other \in Open : cf.sockets \intersect other.sockets = {}

\* The rest of Manager.Start: buildInstance and the entry, which overwrites one
\* that another Start has made meanwhile ...
Start(a) ==
    LET n == job[a].name  cf == job[a].cf IN
    /\ pc[a] = "start" /\ cf.good /\ Unbound(cf)
    /\ running' = [running EXCEPT ![n] = [cf |-> cf, path |-> job[a].path]]
    /\ lost' = IF running[n] = None THEN lost ELSE lost \union {running[n].cf}
    /\ refused' = refused \ {n}
    /\ Goto(a, "apply") /\ UNCHANGED job
    /\ UNCHANGED <<fileVars, watchVars, bounds, overlapped, bare, closing, fwVars>>

\* ... or it fails: the configuration is one it refuses, or a socket is taken,
\* by another proxy or by something else.  Nobody tries again.
StartFails(a) ==
    LET n == job[a].name IN
    /\ pc[a] = "start"
    /\ refused' = IF job[a].cf.good THEN refused \union {n} ELSE refused \ {n}
    /\ Leave(a)
    /\ UNCHANGED <<fileVars, watchVars, running, bounds, overlapped, bare, closing, lost, fwVars>>

\* The start hook.
Apply(a) ==
    LET n == job[a].name IN
    /\ pc[a] = "apply"
    /\ ApplyRules(n, BuildRules(job[a].cf))
    /\ bare' = IF activeRules'[n] = None THEN bare \union {n} ELSE bare \ {n}
    /\ Leave(a)
    /\ UNCHANGED <<fileVars, watchVars, running, bounds, overlapped, sockVars>>

\* The next item of work of the start-up or of handleReloadAll, whose second
\* part stops what runs and was not on disk when the files were loaded.  The
\* code takes files in the order of their names, here any order.
TakeNext(a) ==
    /\ pc[a] = "next"
    /\ \/ \E w \in job[a].todo :
            /\ job' = [job EXCEPT ![a].todo = @ \ {w}, ![a].name = w.name,
                                  ![a].path = w.path, ![a].cf = w.cf]
            /\ Goto(a, "stop")
       \/ LET gone == {n \in Names \ job[a].onDisk : running[n] # None} IN
          /\ job[a].todo = {} /\ job[a].op = "reloadAll" /\ gone # {}
          /\ job' = [job EXCEPT ![a].op = "reloadSweep",
                                ![a].todo = {[name |-> n, path |-> None, cf |-> None] : n \in gone}]
          /\ UNCHANGED pc
       \/ /\ job[a].todo = {}
          /\ job[a].op = "reloadAll" => \A n \in Names \ job[a].onDisk : running[n] = None
          /\ job' = [job EXCEPT ![a] = NoJob]
          /\ Goto(a, Home(a))
    /\ UNCHANGED <<fileVars, watchVars, running, bounds, overlapped, bare, sockVars, fwVars>>

-----------------------------------------------------------------------------
(* Start-up, users, and the watcher *)

Init ==
    /\ disk \in InitialFiles
    /\ named = [f \in Paths |-> IF IsConfig(disk[f]) THEN {disk[f].name} ELSE {}]
    /\ watching = FALSE /\ events = <<>> /\ pending = {} /\ out = <<>>
    /\ emitting = [f \in Paths |-> 0]
    /\ running = [n \in Names |-> None]
    /\ pc = [a \in Actors |-> IF a = Main THEN "next" ELSE "idle"]
    /\ job = [a \in Actors |->
                IF a # Main THEN NoJob
                ELSE [NoJob EXCEPT !.op = "boot", !.todo = {w \in LoadedWork : w.cf # None}]]
    /\ edits = 0 /\ requests = 0
    /\ overlapped = {} /\ bare = {} /\ missed = {}
    /\ closing = [a \in Actors |-> None] /\ lost = {} /\ refused = {}
    /\ FirewallInit

\* NewWatcher, after the proxies have been started and the API serves.
Watch ==
    /\ pc[Main] = "watch"
    /\ watching' = TRUE
    /\ Goto(Main, "consume")
    /\ UNCHANGED <<fileVars, pending, emitting, out, running, job, bounds, overlapped, bare, sockVars, fwVars>>

Edit(f, text) ==
    /\ <<f, text>> \in Edits /\ disk[f] # text
    /\ edits < MaxEdits /\ edits' = edits + 1
    /\ WriteFile(f, text)
    /\ UNCHANGED <<watchVars, running, pc, job, requests, overlapped, bare, sockVars, fwVars>>

FaultEmitUnbounded(change) ==
    out' = Append(out, change) /\ UNCHANGED missed

\* emit: into the channel, or dropped when it has been full for five seconds.
Emit(change) ==
    \/ /\ Len(out) < OutCap
       /\ out' = Append(out, change)
       /\ UNCHANGED missed
    \/ /\ Len(out) = OutCap
       /\ missed' = missed \union {change.path}
       /\ UNCHANGED out

\* handle: a removal is emitted at once, by the read loop itself; an update
\* (re)starts the path's debounce timer.
Handle ==
    /\ watching /\ events # <<>>
    /\ events' = Tail(events)
    /\ LET e == Head(events) IN
       IF e.op = "remove"
       THEN Emit(e) /\ UNCHANGED pending
       ELSE pending' = pending \union {e.path} /\ UNCHANGED <<out, missed>>
    /\ UNCHANGED <<disk, named, watching, emitting, running, pc, job, bounds, overlapped, bare, sockVars, fwVars>>

FaultTimerForgets(f) ==
    /\ f \in pending
    /\ pending' = pending \ {f}
    /\ UNCHANGED <<fileVars, watching, emitting, out, running, pc, job, bounds, overlapped, bare, sockVars, fwVars>>

\* scheduleEmit: the newest timer of a path fires (the others find another seed
\* and exit); its goroutine then emits.
TimerFires(f) ==
    /\ f \in pending
    /\ pending' = pending \ {f}
    /\ emitting' = [emitting EXCEPT ![f] = @ + 1]
    /\ UNCHANGED <<fileVars, watching, out, running, pc, job, bounds, overlapped, bare, sockVars, fwVars>>

EmitUpdate(f) ==
    /\ emitting[f] > 0
    /\ emitting' = [emitting EXCEPT ![f] = @ - 1]
    /\ Emit([path |-> f, op |-> "update"])
    /\ UNCHANGED <<disk, events, named, watching, pending, running, pc, job, bounds, overlapped, bare, sockVars, fwVars>>

\* The consumer: a removal stops the proxy that was loaded from the file, an
\* update reads the file as it is now and starts or stops the proxy it names.
Consume ==
    /\ pc[Main] = "consume" /\ out # <<>>
    /\ out' = Tail(out)
    /\ LET f == Head(out).path
           owners == {n \in Names : running[n] # None /\ running[n].path = Watched(f)}
       IN
       \/ /\ Head(out).op = "remove"
          /\ \E n \in owners :
                Begin(Main, "stop", [NoJob EXCEPT !.op = "remove", !.name = n])
       \/ /\ Head(out).op = "update" /\ IsConfig(disk[f])
          /\ Begin(Main, "stop", [NoJob EXCEPT !.op = "update", !.name = disk[f].name,
                                               !.path = Watched(f), !.cf = Work(f).cf])
       \/ /\ IF Head(out).op = "remove" THEN owners = {} ELSE ~ IsConfig(disk[f])
          /\ NoteOverlap(Main, named[f])
          /\ UNCHANGED <<pc, job>>
    /\ UNCHANGED <<fileVars, watching, pending, emitting, running, bounds, bare, sockVars, fwVars>>

-----------------------------------------------------------------------------
(* API requests *)

Request(h) ==
    /\ pc[h] = "idle" /\ (watching \/ pc[Main] = "watch")
    /\ requests < MaxRequests /\ requests' = requests + 1
    /\ UNCHANGED <<fileVars, watchVars, edits, bare, sockVars, fwVars>>

\* handleEnableProxy, handleDisableProxy: the configuration in use, if there is
\* one, is changed in memory and will be written over the file.
Toggle(h, n, on) ==
    /\ \E p \in Resolve(n) :
        Begin(h, "save", [NoJob EXCEPT !.op = "toggle", !.name = n, !.path = p.path,
                                       !.save = Switched(p.cf, on),
                                       !.cf = IF on THEN Switched(p.cf, on) ELSE None])
    /\ running' = IF running[n] = None THEN running
                  ELSE [running EXCEPT ![n].cf = Switched(@, on)]
    /\ Request(h)

Create(h, cf) ==
    /\ Resolve(cf.name) = {}
    /\ Begin(h, "save", [NoJob EXCEPT !.op = "create", !.name = cf.name, !.save = cf,
                                      !.path = Listed(Canonical[cf.name]),
                                      !.cf = IF cf.enabled THEN cf ELSE None])
    /\ UNCHANGED running
    /\ Request(h)

\* handleUpdateProxy.
Replace(h, cf) ==
    /\ \E p \in Resolve(cf.name) :
        Begin(h, "save", [NoJob EXCEPT !.op = "replace", !.name = cf.name, !.path = p.path,
                                       !.save = cf, !.cf = IF cf.enabled THEN cf ELSE None])
    /\ UNCHANGED running
    /\ Request(h)

Delete(h, n) ==
    /\ \E p \in Resolve(n) :
        Begin(h, "stop", [NoJob EXCEPT !.op = "delete", !.name = n, !.path = p.path])
    /\ UNCHANGED running
    /\ Request(h)

\* handleReloadProxy: the file of the running proxy, whatever it says now.
Reload(h, n) ==
    /\ \E p \in Resolve(n) :
        /\ IsConfig(disk[p.path.file])
        /\ Begin(h, "stop", [NoJob EXCEPT !.op = "reload", !.name = disk[p.path.file].name,
                                          !.path = p.path, !.cf = Work(p.path.file).cf])
    /\ UNCHANGED running
    /\ Request(h)

ReloadAll(h) ==
    /\ Begin(h, "next", [NoJob EXCEPT !.op = "reloadAll",
                             !.onDisk = {disk[f].name : f \in {g \in Paths : IsConfig(disk[g])}},
                             !.todo = LoadedWork])
    /\ UNCHANGED running
    /\ Request(h)

\* handleFlushIptables and handleOrphanSweep, which recreate nothing.
FlushIptables(n) ==
    /\ watching \/ pc[Main] = "watch"
    /\ requests < MaxRequests /\ requests' = requests + 1
    /\ FlushProxy(n)
    /\ bare' = bare \union {n}
    /\ UNCHANGED <<fileVars, watchVars, running, pc, job, edits, overlapped, sockVars>>

SweepIptables ==
    /\ watching \/ pc[Main] = "watch"
    /\ requests < MaxRequests /\ requests' = requests + 1
    /\ OrphanSweep({})
    /\ UNCHANGED <<fileVars, watchVars, running, pc, job, edits, overlapped, bare, sockVars>>

\* SaveProxy: a temporary file renamed over the path, or an error.
Save(h) ==
    /\ pc[h] = "save"
    /\ \/ /\ WriteFile(job[h].path.file, job[h].save)
          /\ IF job[h].op = "create" /\ job[h].cf = None THEN Leave(h)
             ELSE Goto(h, "stop") /\ UNCHANGED job
       \/ /\ Leave(h)
          /\ UNCHANGED fileVars
    /\ UNCHANGED <<watchVars, running, bounds, overlapped, bare, sockVars, fwVars>>

\* DeleteProxyFile, after the proxy has been stopped.
Unlink(h) ==
    /\ pc[h] = "unlink"
    /\ IF disk[job[h].path.file] = None THEN UNCHANGED fileVars ELSE WriteFile(job[h].path.file, None)
    /\ Leave(h)
    /\ UNCHANGED <<watchVars, running, bounds, overlapped, bare, sockVars, fwVars>>

-----------------------------------------------------------------------------
Step(a) ==
    \/ Stop(a) \/ Flush(a) \/ Start(a) \/ StartFails(a) \/ Apply(a)
    \/ TakeNext(a) \/ Save(a) \/ Unlink(a)

Next ==
    \/ \E f \in Paths : (\E text \in Texts : Edit(f, text)) \/ TimerFires(f) \/ EmitUpdate(f)
    \/ Handle \/ Watch \/ Consume \/ SweepIptables
    \/ \E a \in Actors : Step(a)
    \/ \E h \in Handlers :
        \/ ReloadAll(h)
        \/ \E cf \in Configs : Create(h, cf) \/ Replace(h, cf)
        \/ \E n \in Names : Delete(h, n) \/ Reload(h, n) \/ \E on \in BOOLEAN : Toggle(h, n, on)
    \/ \E n \in Names : FlushIptables(n)

Spec == Init /\ [][Next]_vars

\* Some goroutine that can run does, and timers fire; users and API clients need
\* not act.  The scheduler gives every goroutine its turn, but as each edit and each
\* request makes for finitely many steps this much is enough.
ProgramRuns ==
    \/ Handle \/ Watch \/ Consume
    \/ \E f \in Paths : TimerFires(f) \/ EmitUpdate(f)
    \/ \E a \in Actors : Step(a)

FairSpec == Spec /\ WF_vars(ProgramRuns)

-----------------------------------------------------------------------------
(* Properties *)

\* The IPv4 chain holds of every rule a copy for each proxy that is recorded as
\* having it, whichever other proxies have the same one, and those that failing
\* commands have left (manager.go 46-68, 137-143); and between calls, a proxy is
\* recorded with exactly the rules of the configuration it runs with, with none
\* if it does not run, if its rules could not be applied or if the API has
\* flushed them.  The record, not the chain, goes astray when two calls on the
\* proxy have overlapped: the stop hook of one flushes what the start hook of
\* the other applied, or the rules of a proxy that is gone are applied (main.go
\* 146-166).  Nothing is claimed of ip6tables, whose copies are never deleted.
RulesFollowProxies ==
    /\ \A rule \in BagToSet(kernel) \union BagToSet(strays) \union UNION {Recorded(n) : n \in Names} :
        Copies(rule, kernel) =
            Cardinality({n \in Names : rule \in Recorded(n)}) + Copies(rule, strays)
    /\ \A n \in Names : ~ Busy(n) /\ n \notin overlapped =>
        activeRules[n] = IF running[n] # None /\ n \notin bare THEN BuildRules(running[n].cf) ELSE None

\* Between calls a proxy that runs has its rules, as long as no command of
\* iptables has failed and no calls have overlapped: what docs/API.md 444 says
\* of the flush endpoint, "Flush + recreate a proxy's rules", amounts to.
RunningProxiesHaveRules ==
    \A n \in Names : ~ Busy(n) /\ n \notin overlapped /\ failures = 0 /\ running[n] # None =>
        BuildRules(running[n].cf) \subseteq BagToSet(kernel)

\* A change to the file is on its way to the manager.
InFlight(f) ==
    \/ f \in pending \/ emitting[f] > 0
    \/ \E i \in DOMAIN events : events[i].path = f
    \/ \E i \in DOMAIN out : out[i].path = f

SameButSwitch(cf, text) == IsConfig(text) /\ Switched(text, cf.enabled) = cf

\* The file's proxy name is its own and has always been the same.
OneToOne(f) == \A m \in named[f], g \in Paths : \A n \in named[g] : m = n <=> f = g

\* What may set files and proxies apart for good.
Excused(f) == f \in missed \/ named[f] \intersect overlapped # {} \/ ~ OneToOne(f)

\* Enable and Disable write the running instance's configuration over the file
\* (routes.go 236-284), yet undo no edit that has reached the manager: only one
\* that is on its way, or one that does not parse.
ToggleKeepsAppliedEdits ==
    [][\A h \in Handlers :
        pc[h] = "save" /\ pc'[h] = "stop" /\ job[h].op = "toggle" =>
            LET f == job[h].path.file IN
            \/ SameButSwitch(job[h].save, disk[f])
            \/ disk[f] = Broken \/ InFlight(f) \/ Excused(f)]_vars

\* What the manager should be doing about a file: a proxy whose socket could not
\* be bound stays down.
InStep(f) ==
    LET text == disk[f] IN
    IF text = None THEN \A n \in Names : running[n] # None => running[n].path.file # f
    ELSE text # Broken =>
        IF text.enabled /\ text.good /\ text.name \notin refused
        THEN LET r == running[text.name] IN
             r # None /\ r.path.file = f /\ SameButSwitch(r.cf, text)
        ELSE running[text.name] = None

\* A proxy whose file has been deleted stops (docs/API.md 494, main.go 230), once
\* the watcher and everybody else is done.
DeletedFileStopsProxy ==
    \A f \in Paths :
        disk[f] = None /\ ~ InFlight(f) /\ ~ Excused(f) /\ (\A a \in Actors : Touches(a) = {}) =>
            \A n \in Names : running[n] # None => running[n].path.file # f

=============================================================================
