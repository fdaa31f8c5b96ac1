--------------------------- MODULE ConnectionPool ---------------------------
(***************************************************************************)
(* The pool of remote connections, core/remoteFs.ts, for one identity: the *)
(* entry in fsTable, its shared acquisition with the idle probe, and the   *)
(* connections it opens and replaces, with what core/remote-client and     *)
(* core/fs/remoteFileSystem.ts do to connect and to end one.               *)
(***************************************************************************)
EXTENDS Naturals, FiniteSets

CONSTANTS Callers,      \* commands that want the connection
          MaxEntries,   \* bound: pool entries created, one after each Disconnect
          MaxConns,     \* bound: connections opened
          Hops,         \* bastions before an SSH host
          Protocols     \* "sftp", "ftp" or both; an identity has one

ASSUME PoolAssumption ==
  /\ IsFiniteSet(Callers)
  /\ MaxEntries \in Nat \ {0}
  /\ MaxConns \in Nat \ {0}
  /\ Hops \in Nat
  /\ Protocols \subseteq {"sftp", "ftp"}

VARIABLES protocol, \* of this identity, never changed
          pool,    \* fsTable[identity]: an entry, 0 when there is none
          entry,   \* the KeepAliveRemoteFs objects made so far
          conn,    \* the file systems they constructed, with their clients
          events,  \* socket events of a connection not yet emitted
          caller,  \* what each command waits for or works with
          bar,     \* the state of this identity in the status bar
          cut      \* history: entries that Disconnect removed in mid-acquisition

vars == <<protocol, pool, entry, conn, events, caller, bar, cut>>

Entries == 1..MaxEntries
Conns == 1..MaxConns
Coming == {"preparing", "asking", "handshake", "starting", "stuck"}
Live == Coming \cup {"open", "silent"}

Entry == [fs : 0..MaxConns, isValid : BOOLEAN, hasConnected : BOOLEAN,
          closing : BOOLEAN, acq : {"none", "probing", "connecting"}, made : BOOLEAN]
Conn == [owner : 0..MaxEntries, leg : 0..Hops, muted : BOOLEAN,
         at : Live \cup {"none", "ended", "closed"}]
Caller == [at : {"idle", "waiting", "using", "failed"}, on : Nat]

TypeOK ==
  /\ protocol \in Protocols
  /\ pool \in 0..MaxEntries
  /\ entry \in [Entries -> Entry]
  /\ conn \in [Conns -> Conn]
  /\ events \in [Conns -> SUBSET {"error", "close"}]
  /\ caller \in [Callers -> Caller]
  /\ bar \in {"none", "idle", "connecting", "reconnecting", "connected", "lost", "error"}
  /\ cut \in SUBSET Entries

NoEntry == [fs |-> 0, isValid |-> FALSE, hasConnected |-> FALSE,
            closing |-> FALSE, acq |-> "none", made |-> FALSE]

Init ==
  /\ protocol \in Protocols
  /\ pool = 0
  /\ entry = [e \in Entries |-> NoEntry]
  /\ conn = [c \in Conns |-> [owner |-> 0, leg |-> 0, muted |-> FALSE, at |-> "none"]]
  /\ events = [c \in Conns |-> {}]
  /\ caller = [k \in Callers |-> [at |-> "idle", on |-> 0]]
  /\ bar = "none"
  /\ cut = {}

-----------------------------------------------------------------------------
Unused == {c \in Conns : conn[c].at = "none"}
\* A probe may have to replace its connection: one identifier is kept for each.
Spare == Cardinality(Unused) > Cardinality({e \in Entries : entry[e].acq = "probing"})
NextConn == CHOOSE c \in Unused : \A d \in Unused : c <= d

WaitingOn(e) == {k \in Callers : caller[k] = [at |-> "waiting", on |-> e]}

\* The promise every waiting command shares settles.
Answered(e, at, on) ==
  [k \in Callers |-> IF k \in WaitingOn(e) THEN [at |-> at, on |-> on] ELSE caller[k]]

\* client.end() closes what has a socket: not the first host of a chain while its
\* key or password is still being fetched.
HasSocket(c) ==
  \/ conn[c].at \in {"handshake", "starting", "stuck", "open", "silent"}
  \/ conn[c].at \in {"preparing", "asking"} /\ conn[c].leg > 0

\* An FTP client tells its listeners of its end at once, and then never again; what
\* closes an SSH client is told when its socket has unwound.
EndConn(c) ==
  IF c = 0 THEN conn
  ELSE [conn EXCEPT ![c].at = IF HasSocket(c) THEN "ended" ELSE @,
                    ![c].muted = @ \/ protocol = "ftp"]
EndEvents(c) ==
  IF c # 0 /\ HasSocket(c) /\ protocol = "sftp"
  THEN [events EXCEPT ![c] = @ \cup {"close"}] ELSE events

Connecting(e) == IF entry[e].hasConnected THEN "reconnecting" ELSE "connecting"

\* _acquire past the validity check: a new file system in place of the old one.
Constructed(e, en, c) ==
  [en EXCEPT ![e].fs = c, ![e].closing = FALSE, ![e].isValid = FALSE,
             ![e].acq = "connecting", ![e].made = TRUE]
NewConn(e, cn, c) == [cn EXCEPT ![c] = [owner |-> e, leg |-> 0, muted |-> FALSE, at |-> "preparing"]]

Wait(k, e) == caller' = [caller EXCEPT ![k] = [at |-> "waiting", on |-> e]]

-----------------------------------------------------------------------------
\* createRemoteIfNoneExist without an entry: a new one, which connects.
CreateEntry(k) ==
  /\ caller[k].at = "idle" /\ pool = 0 /\ Spare
  /\ \E e \in Entries :
       /\ ~ entry[e].made
       /\ \A f \in Entries : f < e => entry[f].made
       /\ pool' = e
       /\ entry' = Constructed(e, entry, NextConn)
       /\ conn' = NewConn(e, conn, NextConn)
       /\ bar' = "connecting"
       /\ Wait(k, e)
  /\ UNCHANGED <<protocol, events, cut>>

\* Mutant: Without the gate: a second acquisition beside the first.
CompetingAcquisition(k) ==
  /\ caller[k].at = "idle" /\ pool # 0 /\ Spare
  /\ entry[pool].acq # "none"
  /\ entry' = Constructed(pool, entry, NextConn)
  /\ conn' = NewConn(pool, conn, NextConn)
  /\ bar' = Connecting(pool)
  /\ Wait(k, pool)
  /\ UNCHANGED <<protocol, pool, events, cut>>

\* getFs while an acquisition is in flight: the caller shares it.
ShareAcquisition(k) ==
  /\ caller[k].at = "idle" /\ pool # 0
  /\ entry[pool].acq # "none"
  /\ Wait(k, pool)
  /\ UNCHANGED <<protocol, pool, entry, conn, events, bar, cut>>

\* getFs on a valid entry that has not been idle for idleTimeout.
Reuse(k) ==
  /\ caller[k].at = "idle" /\ pool # 0
  /\ entry[pool].acq = "none" /\ entry[pool].isValid
  /\ caller' = [caller EXCEPT ![k] = [at |-> "using", on |-> entry[pool].fs]]
  /\ UNCHANGED <<protocol, pool, entry, conn, events, bar, cut>>

\* getFs on a valid entry that has: the server is asked first.
Probe(k) ==
  /\ caller[k].at = "idle" /\ pool # 0 /\ Spare
  /\ entry[pool].acq = "none" /\ entry[pool].isValid
  /\ entry' = [entry EXCEPT ![pool].acq = "probing"]
  /\ Wait(k, pool)
  /\ UNCHANGED <<protocol, pool, conn, events, bar, cut>>

\* getFs on an entry that lost its connection.
Reconnect(k) ==
  /\ caller[k].at = "idle" /\ pool # 0 /\ Spare
  /\ entry[pool].acq = "none" /\ ~ entry[pool].isValid
  /\ entry' = Constructed(pool, entry, NextConn)
  /\ conn' = NewConn(pool, conn, NextConn)
  /\ bar' = Connecting(pool)
  /\ Wait(k, pool)
  /\ UNCHANGED <<protocol, pool, events, cut>>

\* isStale: the probe is answered in time, the connection is handed out.
ProbeAnswers(e) ==
  /\ entry[e].acq = "probing" /\ conn[entry[e].fs].at = "open"
  /\ entry' = [entry EXCEPT ![e].acq = "none"]
  /\ caller' = Answered(e, "using", entry[e].fs)
  /\ UNCHANGED <<protocol, pool, conn, events, bar, cut>>

\* Mutant: The probe of a half-open socket never times out.
ProbeFailsIfRefused(e) ==
  /\ entry[e].acq = "probing" /\ Unused # {} /\ conn[entry[e].fs].at # "silent"
  /\ LET old == entry[e].fs IN
       /\ entry' = Constructed(e, entry, NextConn)
       /\ conn' = NewConn(e, EndConn(old), NextConn)
       /\ events' = EndEvents(old)
  /\ bar' = Connecting(e)
  /\ UNCHANGED <<protocol, pool, caller, cut>>

\* isStale: the probe is refused or times out; invalid('idle') and a new connection.
ProbeFails(e) ==
  /\ entry[e].acq = "probing" /\ Unused # {}
  /\ LET old == entry[e].fs IN
       /\ entry' = Constructed(e, entry, NextConn)
       /\ conn' = NewConn(e, EndConn(old), NextConn)
       /\ events' = EndEvents(old)
  /\ bar' = Connecting(e)
  /\ UNCHANGED <<protocol, pool, caller, cut>>

-----------------------------------------------------------------------------
At(c, from, to) ==
  /\ conn[c].at = from
  /\ conn' = [conn EXCEPT ![c].at = to]
  /\ UNCHANGED <<protocol, pool, entry, events, caller, bar, cut>>

\* RemoteClient.connect: the config or the secret storage has what it takes...
Prepared(c) == At(c, "preparing", "handshake")

\* ... or the user is asked for a password, and enters one.
AskPassword(c) == At(c, "preparing", "asking")
PasswordEntered(c) == At(c, "asking", "handshake")

\* The last host accepts key and user; SFTP then opens its subsystem, FTP finds out
\* how to list.
Ready(c) ==
  /\ conn[c].leg = Hops \/ protocol = "ftp"
  /\ At(c, "handshake", "starting")

\* A bastion of the chain is connected and forwards to the next host.
LegUp(c) ==
  /\ conn[c].at = "handshake" /\ conn[c].leg < Hops /\ protocol = "sftp"
  /\ conn' = [conn EXCEPT ![c].at = "preparing", ![c].leg = @ + 1]
  /\ UNCHANGED <<protocol, pool, entry, events, caller, bar, cut>>

\* connect() resolves, and with it the acquisition.
Connected(c) ==
  /\ conn[c].at = "starting"
  /\ LET e == conn[c].owner IN
       /\ conn' = [conn EXCEPT ![c].at = "open"]
       /\ entry' = [entry EXCEPT ![e].isValid = TRUE, ![e].hasConnected = TRUE, ![e].acq = "none"]
       /\ caller' = Answered(e, "using", c)
  /\ bar' = "connected"
  /\ UNCHANGED <<protocol, pool, events, cut>>

\* The steps without a deadline are a channel through a bastion, a key read from it, and
\* the SFTP subsystem: the server keeps the connection up and never answers them.
Stalls(c) ==
  /\ protocol = "sftp"
  /\ At(c, "starting", "stuck") \/ (conn[c].leg > 0 /\ At(c, "preparing", "stuck"))

\* Any step of it fails: refused, timed out, cancelled by the user, or cut off with an
\* error. The 'error' event and the rejection both end in invalid('error').
ConnectFails(c) ==
  /\ LET e == conn[c].owner IN
       /\ conn[c].at \in Coming \cup {"ended"}
       /\ entry[e].acq = "connecting" /\ entry[e].fs = c
       /\ conn' = [conn EXCEPT ![c].at = "closed"]
       /\ events' = [events EXCEPT ![c] = IF protocol = "sftp" /\ (HasSocket(c) \/ @ # {})
                                          THEN {"close"} ELSE {}]
       /\ entry' = [entry EXCEPT ![e].closing = TRUE, ![e].isValid = FALSE, ![e].acq = "none"]
       /\ caller' = Answered(e, "failed", 0)
  /\ bar' = "error"
  /\ UNCHANGED <<protocol, pool, cut>>

\* The socket closes under a handshake without an 'error', because the server hangs up or
\* Disconnect ended it: nobody settles the promise any more. Only the last host of a chain
\* tells the pool. (Of one that was ended while its subsystem opened the caller is told;
\* the model lets it hang as well.)
ConnectHangs(c) ==
  /\ protocol = "sftp" /\ conn[c].at \in {"handshake", "ended"}
  /\ entry[conn[c].owner].acq = "connecting" /\ entry[conn[c].owner].fs = c
  /\ conn' = [conn EXCEPT ![c].at = "closed"]
  /\ events' = [events EXCEPT ![c] = IF conn[c].leg = Hops THEN {"close"} ELSE @]
  /\ UNCHANGED <<protocol, pool, entry, caller, bar, cut>>

-----------------------------------------------------------------------------
Deaths(c) == IF conn[c].muted THEN {{}}
             ELSE IF protocol = "ftp" THEN {{"close"}, {"error"}}
             ELSE {{"close"}, {"error", "close"}}

\* The server or the network closes an open connection; the events follow.
Drop(c) ==
  /\ conn[c].at \in {"open", "silent"}
  /\ conn' = [conn EXCEPT ![c].at = "closed"]
  /\ \E es \in Deaths(c) : events' = [events EXCEPT ![c] = es]
  /\ UNCHANGED <<protocol, pool, entry, caller, bar, cut>>

\* A half-open socket: nothing is answered any more and nothing says so.
Silence(c) ==
  /\ conn[c].at = "open"
  /\ conn' = [conn EXCEPT ![c].at = "silent"]
  /\ UNCHANGED <<protocol, pool, entry, events, caller, bar, cut>>

\* invalid() of the entry that a socket event reports to.
Invalidated(e, reason) ==
  /\ entry' = [entry EXCEPT ![e].closing = TRUE, ![e].isValid = FALSE]
  /\ conn' = EndConn(entry[e].fs)
  /\ bar' = IF reason = "error" THEN "error" ELSE "lost"

\* Mutant: Bound straight to invalid(), whichever connection is current.
HeedsAny(e, c) == ~ entry[e].closing

\* The listener given to onDisconnected heeds only the current connection of its
\* entry, and only when nothing on this side asked for the end.
Heeds(e, c) == entry[e].fs = c /\ ~ entry[e].closing

SocketEvent(c) ==
  /\ conn[c].at \in {"ended", "closed"} /\ events[c] # {}
  /\ LET reason == IF "error" \in events[c] THEN "error" ELSE "close"
         e == conn[c].owner IN
       /\ entry[e].acq = "connecting" /\ entry[e].fs = c => conn[c].at = "closed"
       /\ events' = [events EXCEPT ![c] = @ \ {reason}]
       /\ \/ Heeds(e, c) /\ Invalidated(e, reason)
          \/ ~ Heeds(e, c) /\ UNCHANGED <<entry, conn, bar>>
  /\ UNCHANGED <<protocol, pool, caller, cut>>

\* A request of a command has no answer by its deadline: _onOperationTimeout ends the
\* connection, of which only an FTP client tells the entry at once, and the command fails.
OperationTimesOut(k) ==
  /\ caller[k].at = "using"
  /\ LET c == caller[k].on
         e == conn[c].owner
         told == protocol = "ftp" /\ ~ conn[c].muted /\ Heeds(e, c) IN
       /\ conn' = EndConn(c)
       /\ events' = EndEvents(c)
       /\ entry' = IF told THEN [entry EXCEPT ![e].closing = TRUE, ![e].isValid = FALSE] ELSE entry
       /\ bar' = IF told THEN "lost" ELSE bar
  /\ caller' = [caller EXCEPT ![k] = [at |-> "idle", on |-> 0]]
  /\ UNCHANGED <<protocol, pool, cut>>

\* A command is done with its connection, or gives up after a failure.
Finish(k) ==
  /\ caller[k].at \in {"using", "failed"}
  /\ caller' = [caller EXCEPT ![k] = [at |-> "idle", on |-> 0]]
  /\ UNCHANGED <<protocol, pool, entry, conn, events, bar, cut>>

\* removeRemoteFs and removeAllRemoteFs: end() and out of the table.
Disconnect ==
  /\ pool # 0
  /\ entry' = [entry EXCEPT ![pool].closing = TRUE]
  /\ conn' = EndConn(entry[pool].fs)
  /\ events' = EndEvents(entry[pool].fs)
  /\ cut' = IF entry[pool].acq = "none" THEN cut ELSE cut \cup {pool}
  /\ pool' = 0
  /\ bar' = "none"
  /\ UNCHANGED <<protocol, caller>>

Next ==
  \/ \E k \in Callers :
       \/ CreateEntry(k) \/ ShareAcquisition(k) \/ Reuse(k) \/ Probe(k) \/ Reconnect(k)
       \/ OperationTimesOut(k) \/ Finish(k)
  \/ \E e \in Entries : ProbeAnswers(e) \/ ProbeFails(e)
  \/ \E c \in Conns :
       \/ Prepared(c) \/ AskPassword(c) \/ PasswordEntered(c) \/ LegUp(c)
       \/ Ready(c) \/ Connected(c)
       \/ Stalls(c) \/ ConnectFails(c) \/ ConnectHangs(c)
       \/ Drop(c) \/ Silence(c) \/ SocketEvent(c)
  \/ Disconnect

Spec == Init /\ [][Next]_vars

\* Timers and the network settle a probe (the race in isStale) and a handshake
\* (readyTimeout, or the socket closes); a prompt is answered or dismissed. Nothing ends
\* a connection that is stuck.
Fairness ==
  /\ \A e \in Entries : WF_vars(ProbeAnswers(e) \/ ProbeFails(e))
  /\ \A c \in Conns :
       WF_vars(/\ conn[c].at # "stuck"
               /\ \/ Prepared(c) \/ PasswordEntered(c) \/ LegUp(c) \/ Ready(c)
                  \/ Connected(c) \/ ConnectFails(c) \/ ConnectHangs(c))

FairSpec == Spec /\ Fairness

-----------------------------------------------------------------------------
\* A connection that lives belongs to the pool and is the current one of its entry:
\* however many commands ask at once, nothing is overwritten and left open. The
\* exception is an entry that was disconnected while it was acquiring
\* (remoteFs.ts:327), whose connection comes up outside the pool.
NoOrphan ==
  \A c \in Conns : conn[c].at \in Live =>
    /\ entry[conn[c].owner].fs = c
    /\ conn[c].owner = pool \/ conn[c].owner \in cut

\* A valid entry in the pool has a connection, or the event that tells of its end
\* is still to come: a death that was reported is never forgotten.
ValidIsLive ==
  pool # 0 /\ entry[pool].isValid =>
    LET c == entry[pool].fs IN conn[c].at \in {"open", "silent"} \/ events[c] # {}

\* The status bar says "connected" exactly while the pool holds a valid connection;
\* only entries cut off in mid-acquisition may still write to it.
BarTellsTruth ==
  cut = {} => (bar = "connected" <=> (pool # 0 /\ entry[pool].isValid))

\* The last breath of a connection touches no other (remoteFs.ts:148).
SuccessorSurvives ==
  [][\A c \in Conns : events'[c] # events[c] /\ events'[c] \subseteq events[c]
       => \A d \in Conns \ {c} : conn'[d] = conn[d]]_vars

\* Commands that wait together are answered together, with one connection.
AnsweredTogether ==
  [][\A j, k \in Callers :
       /\ caller[j].at = "waiting" /\ caller[k] = caller[j]
       /\ caller'[j].at # "waiting"
       => caller'[k] = caller'[j]]_vars

\* Nothing of the pool is lost track of: no connection lives that nobody would close, no
\* entry is thought valid after its connection's death was told, and the status bar says
\* what the pool holds (remoteFs.ts).
PoolSound == TypeOK /\ NoOrphan /\ ValidIsLive /\ BarTellsTruth

\* Two commands on one connection do not part: the end of a replaced connection disturbs
\* no other, and commands that share an acquisition get one answer (remoteFs.ts:76, 148).
SharedFairly == SuccessorSurvives /\ AnsweredTogether

\* The acquisition of e waits for a handshake that nobody will settle (sshClient.ts:404),
\* or for a server that keeps a step without a deadline unanswered.
Hung(e) == entry[e].acq = "connecting" /\ conn[entry[e].fs].at \in {"closed", "stuck"}

\* No command waits for good, but for an acquisition that hangs.
Acquired ==
  \A k \in Callers : caller[k].at = "waiting" ~> caller[k].at # "waiting" \/ Hung(caller[k].on)
=============================================================================
