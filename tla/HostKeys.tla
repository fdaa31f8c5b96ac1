------------------------------ MODULE HostKeys ------------------------------
(***************************************************************************)
(* SSH host keys: the known_hosts files (core/remote-client/               *)
(* hostKeyStore.ts), the verdict on the key a server offers                *)
(* (hostKeyVerifier.ts), and the Forget Host Key command.  Reading a file, *)
(* writing one and asking the user take time; connections and the command  *)
(* overlap.                                                                *)
(***************************************************************************)
EXTENDS Naturals, FiniteSets

CONSTANTS Hosts,        \* host tokens
          Verifiers,    \* handshakes in progress, a terminal's or the pool's
          Keys,         \* host keys: a type, "cert" is a certificate's, and a value
          Policies,     \* strictHostKeyChecking of the connections
          Files,        \* OpenSSH's files; "managed" is the extension's
          FirstStores,  \* what the files may hold at first
          FirstOffers,  \* the keys the servers may have at first
          MaxRebuilds   \* bound: servers that get a new key

AllFiles == Files \cup {"managed"}
\* A line: hosts its patterns cover, hosts its negated patterns veto.
Line == [file : AllFiles, marker : {"none", "revoked", "cert-authority"},
         covers : SUBSET Hosts, vetoes : SUBSET Hosts, key : Keys]

HostKeyAssumption ==
  /\ Hosts # {} /\ Keys # {}
  /\ \A k \in Keys : DOMAIN k = {"type", "value"}
  /\ Policies \subseteq {"yes", "no", "ask", "accept-new"}
  /\ "managed" \notin Files
  /\ FirstStores \subseteq SUBSET Line /\ FirstOffers \subseteq [Hosts -> Keys]
  /\ MaxRebuilds \in Nat

VARIABLES policy,     \* strictHostKeyChecking in the configuration of each host
          store,      \* the lines of all files
          offers,     \* the key each server has
          rebuilds,   \* servers rebuilt so far
          check,      \* per verifier: verifyHostKey and the handshake around it
          forget,     \* the Forget Host Key command
          fresh,      \* history: verifiers whose look at the store is still current
          remembered, \* history: hosts and keys the extension has stored
          raced       \* history: "look", a key was stored on an outdated look;
                      \* "rewrite", one was stored while its file was being rewritten

vars == <<policy, store, offers, rebuilds, check, forget, fresh, remembered, raced>>

Idle == "idle"
NoCheck == [at |-> Idle, host |-> CHOOSE h \in Hosts : TRUE, key |-> CHOOSE k \in Keys : TRUE]
NoForget == [at |-> Idle, host |-> CHOOSE h \in Hosts : TRUE, todo |-> {},
             file |-> "managed", kept |-> {}]

TypeOK ==
  /\ policy \in [Hosts -> Policies]
  /\ store \subseteq Line
  /\ offers \in [Hosts -> Keys]
  /\ rebuilds \in 0..MaxRebuilds
  /\ check \in [Verifiers -> [at : {Idle, "knocking", "asking", "storing", "accepted"},
                              host : Hosts, key : Keys]]
  /\ forget.at \in {Idle, "confirm", "read", "write"}
  /\ forget.todo \subseteq AllFiles /\ forget.file \in AllFiles /\ forget.kept \subseteq Line
  /\ fresh \subseteq Verifiers
  /\ remembered \subseteq Hosts \X Keys
  /\ raced \subseteq {"look", "rewrite"}

Init ==
  /\ policy \in [Hosts -> Policies]
  /\ store \in FirstStores
  /\ offers \in FirstOffers
  /\ rebuilds = 0
  /\ check = [v \in Verifiers |-> NoCheck]
  /\ forget = NoForget
  /\ fresh = {} /\ remembered = {} /\ raced = {}

-----------------------------------------------------------------------------
\* entryMatchesHost: a negated pattern vetoes the whole line.
MatchesHost(line, h) == h \in line.covers /\ h \notin line.vetoes

LinesFor(S, h) == {line \in S : MatchesHost(line, h)}

\* Mutant: a line that holds the key is enough, before the others are read.
LookupMatchFirst(S, h, k) ==
  LET forHost == {l \in LinesFor(S, h) : l.marker # "cert-authority"} IN
  IF \E l \in forHost : l.key = k /\ l.marker = "none" THEN "match"
  ELSE IF \E l \in forHost : l.key = k /\ l.marker = "revoked" THEN "revoked"
  ELSE IF \E l \in forHost : l.key.type = k.type /\ l.marker # "revoked" THEN "changed"
  ELSE "unknown"

\* lookupHostKey.  A certificate authority's line says nothing of a plain key; a key of
\* a type never seen for the host is new, not changed.
Lookup(S, h, k) ==
  LET forHost == {l \in LinesFor(S, h) : l.marker # "cert-authority"} IN
  IF \E l \in forHost : l.key = k /\ l.marker = "revoked" THEN "revoked"
  ELSE IF \E l \in forHost : l.key = k THEN "match"
  ELSE IF \E l \in forHost : l.key.type = k.type /\ l.marker # "revoked" THEN "changed"
  ELSE "unknown"

\* A refused connection ends at once, with a message.
Now(v, key, at) ==
  check' = [check EXCEPT ![v] = IF at = "refused" THEN NoCheck
                                ELSE [@ EXCEPT !.key = key, !.at = at]]
Looked(v, at) == IF at = "refused" THEN fresh \ {v} ELSE fresh
Set(v, at) == Now(v, check[v].key, at)
Doze == UNCHANGED <<policy, store, offers, rebuilds, forget, remembered, raced>>

\* A connection is started.
Connect(v) ==
  /\ check[v].at = Idle
  /\ \E h \in Hosts : check' = [check EXCEPT ![v] = [NoCheck EXCEPT !.at = "knocking", !.host = h]]
  /\ UNCHANGED fresh /\ Doze

\* What becomes of a connection by policy and verdict.
Verdict(rule, verdict) ==
  CASE verdict = "revoked" -> "refused"
    [] verdict = "match" -> "accepted"
    [] verdict = "changed" -> IF rule = "no" THEN "accepted" ELSE "refused"
    [] verdict = "unknown" /\ rule = "yes" -> "refused"
    [] verdict = "unknown" /\ rule = "ask" -> "asking"
    [] OTHER -> "storing"

\* The server offers its key: hostVerifier calls verifyHostKey, which refuses a
\* certificate, reads the files, every time anew, and applies the policy.
Judge(v) ==
  /\ check[v].at = "knocking"
  /\ LET k == offers[check[v].host]
         at == IF k.type = "cert" THEN "refused"
               ELSE Verdict(policy[check[v].host], Lookup(store, check[v].host, k)) IN
       /\ Now(v, k, at)
       /\ fresh' = IF at = "refused" THEN fresh ELSE fresh \cup {v}
  /\ Doze

\* The modal prompt of a first sight is answered.
Answer(v) ==
  /\ check[v].at = "asking"
  /\ \E at \in {"storing", "accepted", "refused"} : Set(v, at) /\ fresh' = Looked(v, at)
  /\ Doze

\* rememberHostKey appends to the managed file, whatever has become of the connection
\* and of the files since the look.
Remember(v) ==
  /\ check[v].at = "storing"
  /\ LET c == check[v]
         line == [file |-> "managed", marker |-> "none", covers |-> {c.host}, vetoes |-> {}, key |-> c.key] IN
       /\ store' = store \cup {line}
       /\ remembered' = remembered \cup {<<c.host, c.key>>}
       /\ raced' = raced \cup (IF v \in fresh THEN {} ELSE {"look"})
                         \cup (IF forget.at = "write" /\ forget.file = "managed" THEN {"rewrite"} ELSE {})
  /\ fresh' = fresh \cap {v}
  /\ Set(v, "accepted")
  /\ UNCHANGED <<policy, offers, rebuilds, forget>>

\* The managed file cannot be written: the rejection refuses the key.
RememberFails(v) ==
  /\ check[v].at = "storing"
  /\ Set(v, "refused") /\ fresh' = fresh \ {v}
  /\ Doze

\* The connection has had its verdict and ends sooner or later.
Over(v) ==
  /\ check[v].at = "accepted"
  /\ check' = [check EXCEPT ![v] = NoCheck]
  /\ fresh' = fresh \ {v}
  /\ Doze

\* A server is rebuilt, or another answers in its place.
Rebuild(h) ==
  /\ rebuilds < MaxRebuilds
  /\ rebuilds' = rebuilds + 1
  /\ \E k \in Keys \ {offers[h]} : offers' = [offers EXCEPT ![h] = k]
  /\ UNCHANGED <<policy, store, check, forget, fresh, remembered, raced>>

-----------------------------------------------------------------------------
\* Forget Host Key: what is stored is listed; files that are OpenSSH's are confirmed.
FilesOf(lines) == {l.file : l \in lines}

ForgetCommand(h) ==
  /\ forget.at = Idle
  /\ LET sources == FilesOf(LinesFor(store, h)) IN
       /\ sources # {}
       /\ forget' = [NoForget EXCEPT !.at = IF sources \subseteq {"managed"} THEN "read" ELSE "confirm",
                                     !.host = h, !.todo = sources]
  /\ UNCHANGED <<policy, store, offers, rebuilds, check, fresh, remembered, raced>>

Confirm ==
  /\ forget.at = "confirm"
  /\ \/ forget' = [forget EXCEPT !.at = "read"]
     \/ forget' = NoForget
  /\ UNCHANGED <<policy, store, offers, rebuilds, check, fresh, remembered, raced>>

\* forgetHostKey keeps the lines that do not match, whatever they are.
Kept(f) == {l \in store : l.file = f /\ ~ MatchesHost(l, forget.host)}

\* Done with file f, whether it held the host or not, was written or could not be.
NextFile(f) ==
  forget' = IF forget.todo = {f} THEN NoForget
            ELSE [forget EXCEPT !.at = "read", !.todo = @ \ {f}, !.kept = {}]

\* One file after the other is read ...
ReadFile(f) ==
  /\ forget.at = "read" /\ f \in forget.todo
  /\ \/ /\ \E l \in LinesFor(store, forget.host) : l.file = f
        /\ forget' = [forget EXCEPT !.at = "write", !.file = f, !.kept = Kept(f)]
     \/ (\A l \in LinesFor(store, forget.host) : l.file # f) /\ NextFile(f)
  /\ UNCHANGED <<policy, store, offers, rebuilds, check, fresh, remembered, raced>>

\* ... and written back whole ...
WriteFile ==
  /\ forget.at = "write"
  /\ LET f == forget.file IN
       /\ store' = {l \in store : l.file # f} \cup forget.kept
       /\ remembered' = IF f = "managed" THEN {r \in remembered : r[1] # forget.host} ELSE remembered
       /\ NextFile(f)
  /\ fresh' = {}
  /\ UNCHANGED <<policy, offers, rebuilds, check, raced>>

\* ... or not, when the user may not write it.
WriteFails ==
  /\ forget.at = "write"
  /\ NextFile(forget.file)
  /\ UNCHANGED <<policy, store, offers, rebuilds, check, fresh, remembered, raced>>

Next ==
  \/ \E v \in Verifiers : \/ Connect(v) \/ Judge(v) \/ Answer(v) \/ Remember(v)
                          \/ RememberFails(v) \/ Over(v)
  \/ \E h \in Hosts : Rebuild(h) \/ ForgetCommand(h)
  \/ Confirm
  \/ \E f \in AllFiles : ReadFile(f)
  \/ WriteFile \/ WriteFails

Spec == Init /\ [][Next]_vars

-----------------------------------------------------------------------------
\* The lines that count for host h, in the words of sshd's manual and not the code's.
Says(h, l) == h \in l.covers /\ h \notin l.vetoes /\ l.marker # "cert-authority"
Contradicts(h, k, l) == Says(h, l) /\ l.marker = "none" /\ l.key.type = k.type /\ l.key # k

\* A connection whose look at the files still holds goes ahead only with a key nobody
\* revoked, and that the files hold, or do not contradict, or that "no" lets through.
Vouched ==
  \A v \in fresh :
    LET c == check[v] IN
    c.at = "accepted" =>
      /\ \A l \in store : Says(c.host, l) /\ l.marker = "revoked" => l.key # c.key
      /\ \/ policy[c.host] = "no"
         \/ \E l \in store : Says(c.host, l) /\ l.marker = "none" /\ l.key = c.key
         \/ policy[c.host] = "ask" /\ \A l \in store : ~ Contradicts(c.host, c.key, l)

\* What the extension has stored stays until its host is forgotten, forgetting another
\* host included. The exception is a key stored between the read and the write of a
\* rewrite (hostKeyStore.ts:460), which the write drops.
StoredKeysStay ==
  "rewrite" \notin raced =>
    \A r \in remembered : \E l \in store :
      l.file = "managed" /\ l.covers = {r[1]} /\ l.key = r[2]

\* A host gets no second key of a type, which would silence every later warning. The
\* exception is a key stored on a look that no longer held (hostKeyVerifier.ts:174).
OneKeyPerType ==
  raced = {} =>
    \A r, s \in remembered : r[1] = s[1] /\ r[2].type = s[2].type => r = s
=============================================================================
