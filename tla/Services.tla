------------------------------ MODULE Services ------------------------------
(***************************************************************************)
(* The services of a workspace folder and its sftp.json: reloads of the    *)
(* file (fileActivityMonitor.ts, extension.ts, the wizard), creation and   *)
(* disposal (serviceManager/index.ts), their watchers (fileService.ts),    *)
(* the active profile and the upload-on-save indicator.                    *)
(***************************************************************************)
EXTENDS Naturals, Sequences, FiniteSets, ServiceTrie

CONSTANTS Contents,   \* of sftp.json: [state : {"none", "bad", "good"}, configs : sequence]
          FirstFiles, \* of those, what is there at start-up
          Editors,    \* paths of files in the active editor
          MaxWrites,  \* bound: changes of the file from outside the commands
          MaxChoices  \* bound: profiles picked, toggles and wizard runs

\* A config: [base, on, profiles : name -> on, start : name or "none"]; `on` is uploadOnSave.
ConfigsIn(content) == ToSet(content.configs)
ProfilesOf(config) == DOMAIN config.profiles

IsConfig(g) ==
  /\ g = [base |-> g.base, on |-> g.on, profiles |-> g.profiles, start |-> g.start]
  /\ g.base \in Seq(STRING) \ {<<>>} /\ g.on \in {"on", "off"}
  /\ g.profiles \in [ProfilesOf(g) -> {"on", "off"}] /\ g.start \in STRING \* not one of them, perhaps

ServicesAssumption ==
  /\ FirstFiles \subseteq Contents /\ MaxWrites \in Nat /\ MaxChoices \in Nat
  /\ \A c \in Contents :
       /\ c = [state |-> c.state, configs |-> c.configs] /\ c.state \in {"none", "bad", "good"}
       /\ c.state # "good" => c.configs = <<>>
       /\ c.configs \in Seq(ConfigsIn(c)) /\ \A g \in ConfigsIn(c) : IsConfig(g)

VARIABLES file,      \* sftp.json
          trie,      \* base -> the config of the service there
          watchers,  \* base -> what its watcher was built from
          profile, available, shown, \* app.state
          active,    \* the path in the active editor
          timer,     \* a reload is scheduled
          events,    \* of the watcher of the file, on their way
          handlers,  \* start-up, reloads and the wizard's reload, reading the file
          picker,    \* the profiles offered, none when it is closed
          toggle,    \* the command between its write and its effect here, if any
          writes, choices,
          overlapped, \* history: the file was read by two handlers at once, or deleted while one read it
          stale,      \* history: a choice was made for what a reload has replaced
          unreconciled \* history: start-up left a profile that no service has, and it is active still

vars == <<file, trie, watchers, profile, available, shown, active, timer, events, handlers,
          picker, toggle, writes, choices, overlapped, stale, unreconciled>>
services == <<trie, watchers, profile, available>>
user == <<active, picker, toggle, choices>>

Handler == [kind : {"start", "reload", "wizard"}, at : {"read", "create"}]
Names == UNION {ProfilesOf(g) \cup {g.start} : g \in UNION {ConfigsIn(c) : c \in Contents}}

TypeOK ==
  /\ profile \in Names \cup {"none"} /\ available \subseteq Names
  /\ shown \in {"on", "off", "unknown"} /\ active \in Editors
  /\ timer \in BOOLEAN /\ events \in Seq({"change", "delete"})
  /\ \A h \in handlers : [kind |-> h.kind, at |-> h.at] \in Handler
  /\ trie.nodes = {<<>>} \cup UNION {Way(b) : b \in DOMAIN trie.value}
  /\ overlapped \in BOOLEAN /\ stale \in BOOLEAN /\ unreconciled \in BOOLEAN

-----------------------------------------------------------------------------
\* getConfig().uploadOnSave, or that it cannot be resolved.
Resolved(config, p) ==
  IF p = "none" \/ ProfilesOf(config) = {} THEN config.on
  ELSE IF p \in ProfilesOf(config) THEN config.profiles[p] ELSE "unknown"

\* refreshUploadOnSaveState: the service of the active editor, else the only one.
Indicator(t, p, path) ==
  LET here == FindPrefix(t, path)
      one == IF here # {} THEN here ELSE AllValues(t)
  IN IF Cardinality(one) = 1 THEN Resolved(CHOOSE c \in one : TRUE, p) ELSE "unknown"

Available(t) == UNION {ProfilesOf(c) : c \in AllValues(t)}
Watcher(config, p) == [config |-> config, profile |-> p]

Rebuilt(t, p) == [base \in DOMAIN t.value |-> Watcher(t.value[base], p)]

\* The subscriber of app.state: a profile that changed has every watcher rebuilt.
Renewed(w, t, p) ==
  [base \in DOMAIN w \cup DOMAIN t.value |-> IF base \in DOMAIN t.value THEN Rebuilt(t, p)[base] ELSE w[base]]

\* The profile under which createFileService makes a service.
ProfileFor(config, p) == IF config.start # "none" /\ p \notin ProfilesOf(config) THEN config.start ELSE p

CreateOne(sofar, config) ==
  LET p == ProfileFor(config, sofar.profile)
      t == Add(sofar.trie, config.base, config)
      before == IF p = sofar.profile THEN sofar.watchers ELSE Renewed(sofar.watchers, sofar.trie, p)
  IN [trie |-> t, profile |-> p, watchers |-> Put(before, config.base, Watcher(config, p))]

\* configs.forEach(createFileService)
Created(configs) ==
  LET made[n \in 0..Len(configs)] ==
        IF n = 0 THEN [trie |-> trie, profile |-> profile, watchers |-> watchers]
        ELSE CreateOne(made[n - 1], configs[n])
  IN made[Len(configs)]

\* reconcileActiveProfile
Reconciled(p, names) == IF p \in names THEN p ELSE "none"

\* updateAvailableProfiles, reconcileActiveProfile and the subscriber, after a change of the trie.
Settle(t, w, p) ==
  /\ trie' = t /\ available' = Available(t)
  /\ profile' = Reconciled(p, Available(t))
  /\ watchers' = IF profile' = p THEN w ELSE Renewed(w, t, profile')

\* getAllValues: the services nearest the root first.
Orders ==
  {order \in [1..Cardinality(DOMAIN trie.value) -> DOMAIN trie.value] :
     /\ DOMAIN trie.value \subseteq ToSet(order)
     /\ \A i, k \in DOMAIN order : i < k => Len(order[i]) <= Len(order[k])}

\* disposeFileService of each
Disposed(order) ==
  LET left[n \in 0..Len(order)] == IF n = 0 THEN trie ELSE RemovePath(left[n - 1], order[n])
  IN left[Len(order)]
WatchersLeft == [b \in DOMAIN watchers \ DOMAIN trie.value |-> watchers[b]]
Detached == {[t EXCEPT !.live = FALSE] : t \in toggle}

-----------------------------------------------------------------------------
Init ==
  /\ file \in FirstFiles /\ trie = EmptyTrie /\ watchers = <<>>
  /\ profile = "none" /\ available = {} /\ shown = "unknown" /\ active \in Editors
  /\ timer = FALSE /\ events = <<>>
  /\ handlers = {[kind |-> "start", at |-> "read", got |-> file]} \* `got` counts once it has read
  /\ picker = {} /\ toggle = {} /\ writes = 0 /\ choices = 0
  /\ overlapped = FALSE /\ stale = FALSE /\ unreconciled = FALSE

\* The file is saved in the editor, which schedules a reload at once.
SaveInEditor(c) ==
  /\ writes < MaxWrites /\ c.state # "none" /\ c # file
  /\ writes' = writes + 1
  /\ file' = c /\ timer' = TRUE /\ events' = Append(events, "change")
  /\ UNCHANGED <<services, shown, handlers, user, overlapped, stale, unreconciled>>

\* Another program writes or removes it.
ChangeOutside(c) ==
  /\ writes < MaxWrites /\ c # file
  /\ writes' = writes + 1
  /\ file' = c /\ events' = Append(events, IF c.state = "none" THEN "delete" ELSE "change")
  /\ UNCHANGED <<services, shown, timer, handlers, user, overlapped, stale, unreconciled>>

\* scheduleConfigReload puts off one that is scheduled.
Changed ==
  /\ events # <<>> /\ Head(events) = "change"
  /\ events' = Tail(events) /\ timer' = TRUE
  /\ UNCHANGED <<file, services, shown, handlers, user, writes, overlapped, stale, unreconciled>>

\* Mutant: a deleted file leaves its services.
HandleDeleteLate ==
  /\ UNCHANGED <<trie, watchers, profile, available, toggle, unreconciled>>

\* handleConfigDelete
HandleDelete ==
  /\ \E order \in Orders : Settle(Disposed(order), WatchersLeft, profile)
  /\ toggle' = Detached /\ unreconciled' = FALSE

Deleted ==
  /\ events # <<>> /\ Head(events) = "delete"
  /\ events' = Tail(events) /\ timer' = FALSE
  /\ HandleDelete
  /\ shown' = Indicator(trie', profile', active)
  /\ overlapped' = (overlapped \/ handlers # {})
  /\ UNCHANGED <<file, handlers, active, picker, choices, writes, stale>>

\* The old services go, then the file is read.
StartReload(kind) ==
  /\ \E order \in Orders : trie' = Disposed(order)
  /\ watchers' = WatchersLeft /\ available' = Available(trie')
  /\ toggle' = Detached
  /\ handlers' = handlers \cup {[kind |-> kind, at |-> "read", got |-> file]}
  /\ overlapped' = (handlers # {})
  /\ UNCHANGED <<profile, shown>>

\* handleConfigSave, up to its await
Reload ==
  /\ timer /\ timer' = FALSE
  /\ [kind |-> "reload", at |-> "read"] \notin {[kind |-> h.kind, at |-> h.at] : h \in handlers}
  /\ StartReload("reload")
  /\ UNCHANGED <<file, events, active, picker, choices, writes, stale, unreconciled>>

\* The wizard has written the file and reloads on its own.
WizardReloads(c) ==
  /\ choices < MaxChoices /\ choices' = choices + 1
  /\ \A h \in handlers : h.kind # "wizard"
  /\ c.state = "good" /\ c # file
  /\ file' = c /\ events' = Append(events, "change")
  /\ StartReload("wizard")
  /\ UNCHANGED <<timer, active, picker, writes, stale, unreconciled>>

ReadFile(h) ==
  /\ h.at = "read"
  /\ handlers' = (handlers \ {h}) \cup {[h EXCEPT !.at = "create", !.got = file]}
  /\ UNCHANGED <<file, services, shown, timer, events, user, writes, overlapped, stale, unreconciled>>

\* The services of what was read. Start-up does not reconcile the profile, and the wizard
\* does not refresh the indicator; neither goes on when the file could not be read.
Create(h) ==
  /\ h.at = "create"
  /\ handlers' = handlers \ {h}
  /\ LET made == Created(h.got.configs) names == Available(made.trie) IN
       \/ /\ h.kind = "reload" \/ (h.kind = "wizard" /\ h.got.state = "good")
          /\ Settle(made.trie, made.watchers, made.profile) /\ unreconciled' = FALSE
       \/ /\ h.kind = "start" \/ (h.kind = "wizard" /\ h.got.state # "good")
          /\ trie' = made.trie /\ watchers' = made.watchers
          /\ profile' = made.profile /\ available' = names
          /\ unreconciled' = (unreconciled \/ (h.kind = "start" /\ profile' \notin names \cup {"none"}))
  /\ shown' = IF h.kind = "wizard" \/ (h.kind = "start" /\ h.got.state = "bad") THEN shown
              ELSE Indicator(trie', profile', active)
  /\ UNCHANGED <<file, timer, events, user, writes, overlapped, stale>>

-----------------------------------------------------------------------------
\* Another file comes to the front.
Focus(path) ==
  /\ path # active /\ active' = path
  /\ shown' = Indicator(trie, profile, path)
  /\ UNCHANGED <<file, services, timer, events, handlers, picker, toggle, choices, writes, overlapped, stale, unreconciled>>

\* `SFTP: Set Profile` lists the profiles, and waits.
OpenPicker ==
  /\ picker = {} /\ available # {} /\ choices < MaxChoices
  /\ choices' = choices + 1
  /\ picker' = available \cup {"none"}
  /\ UNCHANGED <<file, services, shown, active, timer, events, handlers, toggle, writes, overlapped, stale, unreconciled>>

Switched(p) == IF p = profile THEN watchers ELSE Renewed(watchers, trie, p)

Pick(p) ==
  /\ p \in picker /\ picker' = {}
  /\ profile' = p /\ watchers' = Switched(p)
  /\ stale' = (stale \/ p \notin available \cup {"none"}) /\ unreconciled' = FALSE
  /\ UNCHANGED <<file, trie, available, shown, active, timer, events, handlers, toggle, choices, writes, overlapped>>

Flip(on) == IF on = "on" THEN "off" ELSE "on"
WithOn(config, on) == [config EXCEPT !.on = on]

\* `SFTP: Toggle Upload on Save` writes the option of the config with this base.
Toggle(config) ==
  /\ toggle = {} /\ choices < MaxChoices /\ file.state = "good"
  /\ config \in AllValues(trie) /\ Resolved(config, profile) # "unknown"
  /\ choices' = choices + 1
  /\ LET next == Flip(Resolved(config, profile)) IN
       /\ file' = [file EXCEPT !.configs = [i \in DOMAIN file.configs |->
                     IF file.configs[i].base = config.base THEN WithOn(file.configs[i], next) ELSE file.configs[i]]]
       /\ toggle' = {[config |-> config, next |-> next, live |-> TRUE]}
  /\ events' = Append(events, "change")
  /\ UNCHANGED <<services, shown, active, timer, handlers, picker, writes, overlapped, stale, unreconciled>>

\* setConfigValue: here as well, and the watcher is rebuilt, for a disposed service too.
Toggled ==
  /\ \E t \in toggle :
       LET config == WithOn(t.config, t.next) IN
         /\ trie' = IF t.live THEN Add(trie, config.base, config) ELSE trie
         /\ watchers' = Put(watchers, config.base, Watcher(config, profile))
         /\ shown' = t.next
         /\ stale' = (stale \/ ~ t.live)
  /\ toggle' = {}
  /\ UNCHANGED <<file, profile, available, active, timer, events, handlers, picker, choices, writes, overlapped, unreconciled>>

Next ==
  \/ \E c \in Contents : SaveInEditor(c) \/ ChangeOutside(c) \/ WizardReloads(c)
  \/ Changed \/ Deleted \/ Reload
  \/ \E h \in handlers : ReadFile(h) \/ Create(h)
  \/ \E path \in Editors : Focus(path)
  \/ OpenPicker \/ \E p \in picker : Pick(p)
  \/ \E config \in AllValues(trie) : Toggle(config)
  \/ Toggled

Spec == Init /\ [][Next]_vars

-----------------------------------------------------------------------------
Quiet == ~ timer /\ events = <<>> /\ handlers = {} /\ toggle = {}

\* When every event has been handled, the services are those of the file, each found under
\* its base, unless two handlers ran into each other (fileActivityMonitor.ts:82).
ServesTheFile ==
  Quiet /\ ~ overlapped =>
    /\ {c.base : c \in AllValues(trie)} = {c.base : c \in ConfigsIn(file)}
    /\ \A c \in AllValues(trie) : c \in ConfigsIn(file) /\ FindPrefix(trie, c.base) = {c}

\* Each service, and nothing else, is watched, by its own config under the active profile,
\* unless the upload-on-save command came back to a service disposed of meanwhile.
WatchedAsConfigured == ~ stale => watchers = Rebuilt(trie, profile)

\* The active profile is one that some config defines, when nothing is under way. The
\* exceptions: one picked from a list that a reload has outdated (commandSetProfile.ts:80), and
\* the one that start-up, which does not reconcile it, has left until somebody does.
ProfileIsDefined ==
  Quiet /\ ~ stale /\ ~ overlapped /\ ~ unreconciled => profile \in available \cup {"none"}

\* The indicator is "kept in sync as you switch files, profiles, or reload the config"
\* (CHANGELOG.md:315).
IndicatorInSync == Quiet => shown = Indicator(trie, profile, active)
=============================================================================
