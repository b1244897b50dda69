---------------------------- MODULE HandoffProofs ----------------------------
(***************************************************************************)
(* Theorems about Handoff, for every number of processes and session       *)
(* files: an entry never outlives what it stands for, and remote control   *)
(* follows each replacement and is on exactly where it was asked for.      *)
(*                                                                         *)
(* EntriesOwned is not inductive: between the truncation and the write the *)
(* entries are in the hands of a process alone.  Owned adds that, as long  *)
(* as operations had the file to themselves, at most one process has       *)
(* something to write, and what it has is the file as it was.              *)
(***************************************************************************)
EXTENDS Handoff, TLAPS

Operation == {"starting", "stopping", "quitting", "preparing", "checking", "consuming"}

\* What the terminal r of a process stands for, as Holds says of the process.
HoldsIn(r, f) == r.active = f \/ (r.previous = f /\ r.at \in {"checking", "consuming"})

\* Which sessions a terminal has in hand at each of its callbacks.
Placed(r) ==
  /\ r.active \in {None, r.file}
  /\ r.at = "off" => r.active = None
  /\ r.at # "off" => r.file \in File
  /\ r.at \in {"checking", "consuming"} => r.active = None /\ r.previous \in File
  /\ r.at = "starting" => r.active = r.file
  /\ r.io # "read" => r.at \in Operation \cup {"crashed"}

\* Every entry of map is held, or left by a crash, when the terminals are ts.
Owns(ts, map) ==
  \A f \in DOMAIN map : ts[map[f]].at = "crashed" \/ HoldsIn(ts[map[f]], f)

Exclusive == \A p, q \in Proc : pi[p].io # "read" /\ pi[q].io # "read" => p = q

Copied ==
  \A p \in Proc :
    /\ pi[p].io = "truncate" => pi[p].copy = handoff
    /\ pi[p].io = "write" => handoff = Empty /\ Owns(pi, pi[p].copy)

Owned == Owns(pi, handoff) /\ Exclusive /\ Copied

HandoffInv == TypeOK /\ (\A p \in Proc : Placed(pi[p])) /\ (spoiled \/ Owned)

-----------------------------------------------------------------------------
(* Maps and terminals                                                      *)

\* The maps of the file, by their domains.
LEMMA EntriesMap ==
  ASSUME NEW map
  PROVE  map \in Entries <=> DOMAIN map \subseteq File /\ map \in [DOMAIN map -> Proc]
BY DEF Entries

\* An emptied file is the map of no entries.
LEMMA EmptyMap == Empty \in Entries /\ DOMAIN Empty = {}
BY EntriesMap DEF Empty

\* What an operation writes is a map again.
LEMMA RewrittenMap ==
  ASSUME TypeOK, NEW p \in Proc, Placed(pi[p]), Alive(p)
  PROVE  Rewritten(p) \in Entries
<1>1. DOMAIN pi[p].copy \subseteq File /\ pi[p].copy \in [DOMAIN pi[p].copy -> Proc]
  BY EntriesMap DEF TypeOK, Terminal
<1>2. CASE pi[p].at = "starting"
  <2>1. Target(p) \in File
    BY <1>2 DEF Target, Placed
  <2>2. /\ DOMAIN Rewritten(p) = DOMAIN pi[p].copy \cup {Target(p)}
        /\ \A g \in DOMAIN Rewritten(p) : Rewritten(p)[g] \in Proc
        /\ Rewritten(p) = [g \in DOMAIN Rewritten(p) |-> Rewritten(p)[g]]
    BY <1>1, <1>2 DEF Rewritten
  <2>3. QED
    BY <1>1, <2>1, <2>2, EntriesMap
<1>3. CASE pi[p].at # "starting"
  <2>1. /\ DOMAIN Rewritten(p) = DOMAIN pi[p].copy \ {Target(p)}
        /\ \A g \in DOMAIN Rewritten(p) : Rewritten(p)[g] \in Proc
        /\ Rewritten(p) = [g \in DOMAIN Rewritten(p) |-> Rewritten(p)[g]]
    BY <1>1, <1>3 DEF Rewritten
  <2>2. QED
    BY <1>1, <2>1, EntriesMap
<1>4. QED
  BY <1>2, <1>3

\* The terminal as an operation leaves it.
LEMMA AfterPlaced ==
  ASSUME TypeOK, NEW p \in Proc, Placed(pi[p]), pi[p].at \in Operation, NEW found \in BOOLEAN
  PROVE  /\ After(p, found) \in Terminal /\ Placed(After(p, found))
         /\ After(p, found).io = "read"
         /\ Done(p) \in Terminal
<1>1. pi[p] \in Terminal /\ Empty \in Entries
  BY EmptyMap DEF TypeOK
<1>2. /\ Done(p) \in Terminal /\ Done(p).at = "idle" /\ Done(p).io = "read"
      /\ Done(p).active = pi[p].active /\ Done(p).file = pi[p].file
      /\ Done(p).previous = pi[p].previous
  BY <1>1 DEF Done, Terminal
<1>3. CASE pi[p].at = "starting"
  BY <1>2, <1>3 DEF After, Placed, Terminal
<1>4. CASE pi[p].at = "stopping"
  BY <1>2, <1>4 DEF After, Placed, Terminal
<1>5. CASE pi[p].at = "quitting"
  BY <1>2, <1>5 DEF After, Placed, Terminal
<1>6. CASE pi[p].at = "preparing"
  BY <1>2, <1>6 DEF After, Placed, Terminal
<1>7. CASE pi[p].at = "checking"
  BY <1>2, <1>7 DEF After, AfterCheck, Placed, Terminal
<1>8. CASE pi[p].at = "consuming"
  BY <1>2, <1>8 DEF After, AfterConsume, Placed, Terminal
<1>9. QED
  BY <1>2, <1>3, <1>4, <1>5, <1>6, <1>7, <1>8 DEF Operation

-----------------------------------------------------------------------------
(* The steps                                                               *)

\* A step that changes the terminal of p alone, and not what it holds, keeps what
\* is owned.
LEMMA OwnsOn ==
  ASSUME NEW p \in Proc, NEW ts, NEW us, \A q \in Proc : q # p => us[q] = ts[q],
         ts[p].at # "crashed", NEW map \in Entries, Owns(ts, map),
         \A f \in DOMAIN map : map[f] = p /\ HoldsIn(ts[p], f) => HoldsIn(us[p], f)
  PROVE  Owns(us, map)
<1>1. SUFFICES ASSUME NEW f \in DOMAIN map
               PROVE  us[map[f]].at = "crashed" \/ HoldsIn(us[map[f]], f)
  BY DEF Owns
<1>2. map[f] \in Proc
  BY <1>1, EntriesMap
<1>3. ts[map[f]].at = "crashed" \/ HoldsIn(ts[map[f]], f)
  BY <1>1 DEF Owns
<1>4. QED
  BY <1>2, <1>3

\* A callback that begins, changes its own terminal only and lets go of nothing
\* it holds.
LEMMA Begun ==
  ASSUME HandoffInv, TypeOK', NEW p \in Proc, NEW r \in Terminal,
         pi' = [pi EXCEPT ![p] = r], handoff' = handoff, spoiled' = spoiled,
         pi[p].at # "crashed", pi[p].io = "read", r.io = "read", Placed(r),
         \A f \in File : HoldsIn(pi[p], f) => HoldsIn(r, f)
  PROVE  HandoffInv'
<1>1. /\ pi'[p] = r
      /\ \A q \in Proc : q # p => pi'[q] = pi[q]
      /\ handoff \in Entries
      /\ \A q \in Proc : pi[q].copy \in Entries
  BY DEF HandoffInv, TypeOK, Terminal
<1>2. \A q \in Proc : Placed(pi'[q])
  BY <1>1 DEF HandoffInv
<1>3. SUFFICES ASSUME Owned PROVE Owned'
  BY <1>2 DEF HandoffInv
<1>4. ASSUME NEW map \in Entries, Owns(pi, map)
      PROVE  Owns(pi', map)
  <2>1. \A f \in DOMAIN map : HoldsIn(pi[p], f) => HoldsIn(pi'[p], f)
    BY <1>1, EntriesMap
  <2>2. QED
    BY <1>1, <1>4, <2>1, OwnsOn
<1>5. Owns(pi', handoff')
  BY <1>1, <1>3, <1>4 DEF Owned
<1>6. Exclusive'
  BY <1>1, <1>3 DEF Owned, Exclusive
<1>7. Copied'
  BY <1>1, <1>3, <1>4 DEF Owned, Copied
<1>8. QED
  BY <1>5, <1>6, <1>7 DEF Owned

\* The callbacks that users, phones and pi begin.
LEMMA UserSteps ==
  ASSUME HandoffInv, NEW p \in Proc,
         \/ Rc(p) \/ RcMessage(p) \/ RcStop(p) \/ Quit(p) \/ SocketCloses(p)
         \/ Remote(p) \/ Cancelled(p)
         \/ \E f \in File : Launch(p, f) \/ Replace(p, f) \/ Replaced(p, f)
  PROVE  HandoffInv'
<1> DEFINE t == pi[p]
<1>1. t \in Terminal /\ Placed(t) /\ Empty \in Entries /\ Off \in Terminal
  BY EmptyMap DEF HandoffInv, TypeOK, Off, Terminal
<1>2. ASSUME Rc(p) \/ RcMessage(p) PROVE HandoffInv'
  <2>1. PICK remote \in BOOLEAN : Starts(p, remote)
    BY <1>1, <1>2 DEF Rc, RcMessage, HandoffInv, TypeOK, Terminal
  <2> DEFINE r == [t EXCEPT !.at = "starting", !.active = t.file,
                            !.commandable = TRUE, !.remote = remote]
  <2>2. t.at = "idle" /\ moves' \in 0..MaxMoves
    <3>1. CASE Rc(p)
      BY <3>1, BoundAssumption DEF Rc, Asks, Begins, HandoffInv, TypeOK
    <3>2. CASE RcMessage(p)
      BY <3>2 DEF RcMessage, Begins, HandoffInv, TypeOK
    <3>3. QED
      BY <1>2, <3>1, <3>2
  <2>3. r \in Terminal /\ t.io = "read" /\ r.io = "read" /\ Placed(r)
    BY <1>1, <2>2 DEF Terminal, Placed, Operation
  <2>4. pi' = [pi EXCEPT ![p] = r] /\ handoff' = handoff /\ spoiled' = spoiled
    BY <2>1 DEF Starts
  <2>5. TypeOK'
    <3>1. asked' \in [Proc -> BOOLEAN]
      BY <1>2 DEF Rc, RcMessage, HandoffInv, TypeOK
    <3>2. pi' \in [Proc -> Terminal] /\ UNCHANGED <<handoff, ran, shared, spoiled, failures>>
      BY <2>1, <2>3, <2>4 DEF Starts, HandoffInv, TypeOK
    <3>3. QED
      BY <2>2, <3>1, <3>2 DEF HandoffInv, TypeOK
  <2>6. \A f \in File : HoldsIn(t, f) => HoldsIn(r, f)
    BY <1>1, <2>2, NoneAssumption DEF HoldsIn, Placed, Terminal
  <2>7. QED
    BY <2>2, <2>3, <2>4, <2>5, <2>6, Begun
<1>3. ASSUME RcStop(p) \/ Quit(p) PROVE HandoffInv'
  <2>1. t.at = "idle" /\ moves' \in 0..MaxMoves
    BY <1>3, BoundAssumption DEF RcStop, Quit, Asks, Begins, HandoffInv, TypeOK
  <2>2. PICK at \in {"stopping", "quitting", "idle", "gone"}, closing \in BOOLEAN :
          pi' = [pi EXCEPT ![p].rc = FALSE, ![p].closing = closing, ![p].at = at]
    <3>1. (t.closing \/ t.rc) \in BOOLEAN
      OBVIOUS
    <3>2. QED
      BY <1>3, <3>1 DEF RcStop, Quit, Stop
  <2> DEFINE r == [t EXCEPT !.rc = FALSE, !.closing = closing, !.at = at]
  <2>3. r \in Terminal /\ t.io = "read" /\ r.io = "read" /\ Placed(r)
    BY <1>1, <2>1 DEF Terminal, Placed, Operation
  <2>4. pi' = [pi EXCEPT ![p] = r] /\ handoff' = handoff /\ spoiled' = spoiled
    BY <1>3, <2>2 DEF RcStop, Quit
  <2>5. TypeOK'
    BY <1>1, <1>3, <2>1, <2>3, <2>4 DEF RcStop, Quit, history, HandoffInv, TypeOK, Terminal
  <2>6. \A f \in File : HoldsIn(t, f) => HoldsIn(r, f)
    BY <1>1, <2>1 DEF HoldsIn, Terminal
  <2>7. QED
    BY <2>1, <2>3, <2>4, <2>5, <2>6, Begun
<1>4. ASSUME Remote(p) \/ Cancelled(p) PROVE HandoffInv'
  <2>1. t.at = "idle" /\ moves' \in 0..MaxMoves
    BY <1>4, BoundAssumption DEF Remote, Cancelled, Asks, Begins, HandoffInv, TypeOK
  <2>2. PICK at \in {"preparing", "idle"}, pending \in BOOLEAN :
          pi' = [pi EXCEPT ![p] = [t EXCEPT !.at = at, !.pending = pending]]
    <3>1. /\ [t EXCEPT !.pending = TRUE] = [t EXCEPT !.at = "idle", !.pending = TRUE]
          /\ [t EXCEPT !.pending = FALSE] = [t EXCEPT !.at = "idle", !.pending = FALSE]
          /\ [t EXCEPT !.at = "preparing"] = [t EXCEPT !.at = "preparing", !.pending = t.pending]
          /\ t.pending \in BOOLEAN
      BY <1>1, <2>1 DEF Terminal
    <3>2. CASE Remote(p)
      BY <3>1, <3>2 DEF Remote
    <3>3. CASE Cancelled(p)
      <4>1. pi' = [pi EXCEPT ![p] = [t EXCEPT !.pending = FALSE]]
        BY <3>3 DEF Cancelled
      <4>2. QED
        BY <3>1, <4>1
    <3>4. QED
      BY <1>4, <3>2, <3>3
  <2> DEFINE r == [t EXCEPT !.at = at, !.pending = pending]
  <2>3. r \in Terminal /\ t.io = "read" /\ r.io = "read" /\ Placed(r)
    BY <1>1, <2>1 DEF Terminal, Placed, Operation
  <2>4. handoff' = handoff /\ spoiled' = spoiled
    BY <1>4 DEF Remote, Cancelled
  <2>5. TypeOK'
    <3>1. asked' \in [Proc -> BOOLEAN]
      BY <1>1, <1>4 DEF Remote, Cancelled, HandoffInv, TypeOK, Terminal
    <3>2. QED
      BY <1>4, <2>1, <2>2, <2>3, <2>4, <3>1 DEF Remote, Cancelled, HandoffInv, TypeOK
  <2>6. \A f \in File : HoldsIn(t, f) => HoldsIn(r, f)
    BY <1>1, <2>1 DEF HoldsIn, Terminal
  <2>7. QED
    BY <2>1, <2>2, <2>3, <2>4, <2>5, <2>6, Begun
<1>5. ASSUME NEW f \in File, Launch(p, f) PROVE HandoffInv'
  <2> DEFINE r == [t EXCEPT !.at = "idle", !.file = f]
  <2>1. t.at = "off" /\ t.active = None /\ t.io = "read"
    BY <1>1, <1>5 DEF Launch, Placed, Operation
  <2>2. r \in Terminal /\ r.io = "read" /\ Placed(r)
    BY <1>1, <2>1 DEF Terminal, Placed, Operation
  <2>3. pi' = [pi EXCEPT ![p] = r] /\ handoff' = handoff /\ spoiled' = spoiled
    BY <1>5 DEF Launch
  <2>4. TypeOK'
    BY <1>5, <2>2, <2>3 DEF Launch, HandoffInv, TypeOK
  <2>5. \A g \in File : HoldsIn(t, g) => HoldsIn(r, g)
    BY <2>1, NoneAssumption DEF HoldsIn
  <2>6. QED
    BY <2>1, <2>2, <2>3, <2>4, <2>5, Begun
<1>6. ASSUME NEW f \in File, Replace(p, f) \/ Replaced(p, f) PROVE HandoffInv'
  <2>1. PICK remote \in BOOLEAN : NewRuntime(p, f, remote)
    BY <1>6 DEF Replace, Replaced
  <2> DEFINE r == [Off EXCEPT !.at = "checking", !.file = f, !.previous = t.file, !.remote = remote]
  <2>2. t.at = "idle" /\ moves' \in 0..MaxMoves
    <3>1. CASE Replace(p, f)
      BY <3>1, BoundAssumption DEF Replace, Asks, Begins, HandoffInv, TypeOK
    <3>2. CASE Replaced(p, f)
      BY <3>2 DEF Replaced, Begins, HandoffInv, TypeOK
    <3>3. QED
      BY <1>6, <3>1, <3>2
  <2>3. r \in Terminal /\ t.io = "read" /\ r.io = "read" /\ Placed(r)
    BY <1>1, <2>2 DEF Terminal, Placed, Operation, Off
  <2>4. pi' = [pi EXCEPT ![p] = r] /\ handoff' = handoff /\ spoiled' = spoiled
    BY <1>6, <2>1 DEF NewRuntime, Replace, Replaced
  <2>5. TypeOK'
    <3>1. ran' \in [Proc -> BOOLEAN] /\ shared' \subseteq File
      BY <1>1, <2>1 DEF NewRuntime, HandoffInv, TypeOK, Terminal
    <3>2. QED
      BY <1>6, <2>2, <2>3, <2>4, <3>1 DEF Replace, Replaced, HandoffInv, TypeOK
  <2>6. \A g \in File : HoldsIn(t, g) => HoldsIn(r, g)
    BY <1>1, <2>2, NoneAssumption DEF HoldsIn, Placed, Off
  <2>7. QED
    BY <2>2, <2>3, <2>4, <2>5, <2>6, Begun
<1>7. ASSUME SocketCloses(p) PROVE HandoffInv'
  <2> DEFINE r == [t EXCEPT !.closing = FALSE]
  <2>1. t.at = "idle" /\ t.io = "read"
    BY <1>1, <1>7 DEF SocketCloses, Begins, Placed, Operation, Terminal
  <2>2. r \in Terminal /\ r.io = "read" /\ Placed(r)
    BY <1>1, <2>1 DEF Terminal, Placed, Operation
  <2>3. pi' = [pi EXCEPT ![p] = r] /\ handoff' = handoff /\ spoiled' = spoiled
    BY <1>7 DEF SocketCloses
  <2>4. TypeOK'
    BY <1>7, <2>2, <2>3 DEF SocketCloses, history, HandoffInv, TypeOK
  <2>5. \A f \in File : HoldsIn(t, f) => HoldsIn(r, f)
    BY <1>1 DEF HoldsIn, Terminal
  <2>6. QED
    BY <2>1, <2>2, <2>3, <2>4, <2>5, Begun
<1>8. QED
  BY <1>2, <1>3, <1>4, <1>5, <1>6, <1>7

\* The process is killed: what it had to write is gone, and only what it had
\* emptied the file for is missing.
LEMMA CrashStep ==
  ASSUME HandoffInv, NEW p \in Proc, Crash(p)
  PROVE  HandoffInv'
<1> DEFINE r == [pi[p] EXCEPT !.at = "crashed", !.rc = FALSE, !.io = "read"]
<1>1. pi[p] \in Terminal /\ Placed(pi[p]) /\ Alive(p)
  BY DEF HandoffInv, TypeOK, Crash
<1>2. r \in Terminal /\ Placed(r)
  BY <1>1 DEF Terminal, Placed, Alive
<1>3. /\ pi' = [pi EXCEPT ![p] = r] /\ handoff' = handoff
      /\ spoiled' = (spoiled \/ pi[p].io = "write")
  BY DEF Crash
<1>4. TypeOK'
  BY <1>2, <1>3 DEF Crash, history, HandoffInv, TypeOK
<1>5. /\ pi'[p] = r
      /\ \A q \in Proc : q # p => pi'[q] = pi[q]
  BY <1>3 DEF HandoffInv, TypeOK
<1>6. \A q \in Proc : Placed(pi'[q])
  BY <1>2, <1>5 DEF HandoffInv
<1>7. ASSUME ~spoiled' PROVE Owned'
  <2>1. Owned /\ pi[p].io # "write"
    BY <1>3, <1>7 DEF HandoffInv
  <2>2. ASSUME NEW map \in Entries, Owns(pi, map) PROVE Owns(pi', map)
    <3>1. pi'[p].at = "crashed"
      BY <1>1, <1>5 DEF Terminal
    <3>2. \A f \in DOMAIN map : map[f] \in Proc
      BY EntriesMap
    <3>3. QED
      BY <1>5, <2>2, <3>1, <3>2 DEF Owns
  <2>3. handoff \in Entries /\ \A q \in Proc : pi[q].copy \in Entries
    BY DEF HandoffInv, TypeOK, Terminal
  <2>4. Owns(pi', handoff')
    BY <1>3, <2>1, <2>2, <2>3 DEF Owned
  <2>5. pi'[p].io = "read"
    BY <1>1, <1>5 DEF Terminal
  <2>6. Exclusive'
    BY <1>5, <2>1, <2>5 DEF Owned, Exclusive
  <2>7. Copied'
    BY <1>3, <1>5, <2>1, <2>2, <2>3, <2>5 DEF Owned, Copied
  <2>8. QED
    BY <2>4, <2>6, <2>7 DEF Owned
<1>8. QED
  BY <1>4, <1>6, <1>7 DEF HandoffInv

\* read(): the operation has the file in hand, or is over because it found
\* nothing to write, and then no entry names what it lets go of.
LEMMA ReadStep ==
  ASSUME HandoffInv, NEW p \in Proc, ReadFile(p)
  PROVE  HandoffInv'
<1> DEFINE t == pi[p]
           r == IF Writes(p, handoff) THEN [t EXCEPT !.io = "truncate", !.copy = handoff]
                ELSE After(p, Found(p, handoff))
<1>1. /\ t \in Terminal /\ Placed(t) /\ t.at \in Operation /\ t.io = "read"
      /\ handoff \in Entries /\ Found(p, handoff) \in BOOLEAN
      /\ \A q \in Proc : pi[q].copy \in Entries
  <2>1. t \in Terminal /\ Placed(t) /\ handoff \in Entries /\ \A q \in Proc : pi[q].copy \in Entries
    BY DEF HandoffInv, TypeOK, Terminal
  <2>2. t.at \in Operation /\ t.io = "read"
    BY <2>1 DEF ReadFile, InOperation, Alive, Terminal, Operation
  <2>3. Found(p, handoff) \in BOOLEAN
    BY DEF Found, Alive
  <2>4. QED
    BY <2>1, <2>2, <2>3
<1>2. r \in Terminal /\ Placed(r)
  <2>1. CASE Writes(p, handoff)
    BY <1>1, <2>1 DEF Terminal, Placed
  <2>2. CASE ~Writes(p, handoff)
    BY <1>1, <2>2, AfterPlaced DEF HandoffInv
  <2>3. QED
    BY <2>1, <2>2
<1>3. /\ pi' = [pi EXCEPT ![p] = r] /\ handoff' = handoff
      /\ spoiled' = (spoiled \/ \E q \in Proc :
                       pi[q].io = "write" \/ (pi[q].io = "truncate" /\ Writes(p, handoff)))
  BY DEF ReadFile
<1>4. TypeOK'
  BY <1>2, <1>3 DEF ReadFile, history, HandoffInv, TypeOK
<1>5. /\ pi'[p] = r
      /\ \A q \in Proc : q # p => pi'[q] = pi[q]
  BY <1>3 DEF HandoffInv, TypeOK
<1>6. \A q \in Proc : Placed(pi'[q])
  BY <1>2, <1>5 DEF HandoffInv
<1>7. ASSUME ~spoiled' PROVE Owned'
  <2>1. /\ Owned
        /\ \A q \in Proc : pi[q].io # "write"
        /\ Writes(p, handoff) => \A q \in Proc : pi[q].io # "truncate"
    BY <1>3, <1>7 DEF HandoffInv
  <2>2. Owns(pi', handoff')
    <3>1. pi[p].at # "crashed" /\ Owns(pi, handoff) /\ handoff \in Entries /\ handoff' = handoff
      BY <1>1, <1>3, <2>1 DEF Owned, Operation
    <3>2. ASSUME NEW f \in DOMAIN handoff, HoldsIn(t, f)
          PROVE  HoldsIn(r, f)
      <4>1. CASE Writes(p, handoff)
        BY <1>1, <3>2, <4>1 DEF HoldsIn, Terminal
      <4>2. CASE ~Writes(p, handoff)
        <5>1. f \in File /\ f # None
          BY <1>1, EntriesMap, NoneAssumption
        <5>2. Target(p) = f
          BY <1>1, <3>2, <4>2, <5>1 DEF Target, HoldsIn, Placed, Operation, Writes
        <5>3. t.at = "checking" /\ Found(p, handoff) /\ f = t.previous
          BY <4>2, <5>2 DEF Writes, Target
        <5>4. r = [Done(p) EXCEPT !.at = "consuming"]
          BY <4>2, <5>3 DEF After, AfterCheck
        <5>5. r.at = "consuming" /\ r.previous = f
          BY <1>1, <5>3, <5>4 DEF Done, Terminal
        <5>6. QED
          BY <5>5 DEF HoldsIn
      <4>3. QED
        BY <4>1, <4>2
    <3>3. \A f \in DOMAIN handoff : handoff[f] = p /\ HoldsIn(pi[p], f) => HoldsIn(pi'[p], f)
      BY <1>5, <3>2
    <3>4. Owns(pi', handoff)
      BY <1>5, <3>1, <3>3, OwnsOn
    <3>5. QED
      BY <3>1, <3>4
  <2>3. \A q \in Proc : q # p => pi'[q].io = pi[q].io
    BY <1>5
  <2>4. r.io \in {"read", "truncate"} /\ (r.io = "truncate" => Writes(p, handoff) /\ r.copy = handoff)
    <3>1. CASE Writes(p, handoff)
      BY <1>1, <3>1 DEF Terminal
    <3>2. CASE ~Writes(p, handoff)
      BY <1>1, <3>2, AfterPlaced DEF HandoffInv
    <3>3. QED
      BY <3>1, <3>2
  <2>5. \A q \in Proc : pi[q].io \in {"read", "truncate", "write"}
    BY DEF HandoffInv, TypeOK, Terminal
  <2>6. Exclusive'
    BY <1>5, <2>1, <2>3, <2>4, <2>5 DEF Owned, Exclusive
  <2>7. Copied'
    BY <1>3, <1>5, <2>1, <2>4 DEF Owned, Copied
  <2>8. QED
    BY <2>2, <2>6, <2>7 DEF Owned
<1>8. QED
  BY <1>4, <1>6, <1>7 DEF HandoffInv

\* writeFileSync empties the file; what p is about to write has all that was in it.
LEMMA TruncateStep ==
  ASSUME HandoffInv, NEW p \in Proc, Truncate(p)
  PROVE  HandoffInv'
<1> DEFINE r == [pi[p] EXCEPT !.io = "write"]
<1>1. pi[p] \in Terminal /\ Placed(pi[p]) /\ pi[p].io = "truncate" /\ pi[p].at # "crashed"
  BY DEF HandoffInv, TypeOK, Truncate, Alive
<1>2. r \in Terminal /\ Placed(r)
  BY <1>1 DEF Terminal, Placed
<1>3. pi' = [pi EXCEPT ![p] = r] /\ handoff' = Empty /\ spoiled' = spoiled
  BY DEF Truncate
<1>4. TypeOK'
  BY <1>2, <1>3, EmptyMap DEF Truncate, history, HandoffInv, TypeOK
<1>5. /\ pi'[p] = r
      /\ \A q \in Proc : q # p => pi'[q] = pi[q]
  BY <1>3 DEF HandoffInv, TypeOK
<1>6. \A q \in Proc : Placed(pi'[q])
  BY <1>2, <1>5 DEF HandoffInv
<1>7. ASSUME Owned PROVE Owned'
  <2>1. Owns(pi', handoff')
    BY <1>3, EmptyMap DEF Owns
  <2>2. \A q \in Proc : q # p => pi[q].io = "read"
    BY <1>1, <1>7 DEF Owned, Exclusive
  <2>3. Exclusive'
    BY <1>5, <2>2 DEF Exclusive
  <2>4. Owns(pi', r.copy)
    <3>1. r.copy = handoff /\ handoff \in Entries /\ Owns(pi, handoff)
      BY <1>1, <1>7 DEF Owned, Copied, HandoffInv, TypeOK, Terminal
    <3>2. \A f : HoldsIn(pi[p], f) => HoldsIn(pi'[p], f)
      BY <1>1, <1>5 DEF HoldsIn, Terminal
    <3>3. QED
      BY <1>1, <1>5, <3>1, <3>2, OwnsOn
  <2>5. r.io = "write"
    BY <1>1 DEF Terminal
  <2>6. Copied'
    BY <1>3, <1>5, <2>2, <2>4, <2>5 DEF Copied
  <2>7. QED
    BY <2>1, <2>3, <2>6 DEF Owned
<1>8. QED
  BY <1>3, <1>4, <1>6, <1>7 DEF HandoffInv

\* ... and writes the map, in which nothing is left of what p lets go of.
LEMMA WriteStep ==
  ASSUME HandoffInv, NEW p \in Proc, WriteFile(p)
  PROVE  HandoffInv'
<1> DEFINE t == pi[p]
           r == After(p, FALSE)
<1>1. /\ t \in Terminal /\ Placed(t) /\ t.io = "write" /\ t.at \in Operation
      /\ Alive(p) /\ t.copy \in Entries
  BY DEF HandoffInv, TypeOK, WriteFile, Alive, Placed, Terminal
<1>2. r \in Terminal /\ Placed(r) /\ r.io = "read"
  BY <1>1, AfterPlaced DEF HandoffInv
<1>3. pi' = [pi EXCEPT ![p] = r] /\ handoff' = Rewritten(p) /\ spoiled' = spoiled
  BY DEF WriteFile
<1>4. Rewritten(p) \in Entries
  BY <1>1, RewrittenMap DEF HandoffInv
<1>5. TypeOK'
  BY <1>2, <1>3, <1>4 DEF WriteFile, history, HandoffInv, TypeOK
<1>6. /\ pi'[p] = r
      /\ \A q \in Proc : q # p => pi'[q] = pi[q]
  BY <1>3 DEF HandoffInv, TypeOK
<1>7. \A q \in Proc : Placed(pi'[q])
  BY <1>2, <1>6 DEF HandoffInv
<1>8. ASSUME Owned PROVE Owned'
  <2>1. Owns(pi, t.copy)
    BY <1>1, <1>8 DEF Owned, Copied
  <2>2. \A q \in Proc : q # p => pi[q].io = "read"
    BY <1>1, <1>8 DEF Owned, Exclusive
  <2>3. Exclusive' /\ Copied'
    BY <1>2, <1>6, <2>2 DEF Exclusive, Copied
  <2>4. Owns(pi', Rewritten(p))
    <3>1. SUFFICES ASSUME NEW f \in DOMAIN Rewritten(p)
                   PROVE  pi'[Rewritten(p)[f]].at = "crashed" \/ HoldsIn(pi'[Rewritten(p)[f]], f)
      BY DEF Owns
    <3>2. f \in File /\ f # None /\ Rewritten(p)[f] \in Proc
      BY <1>4, <3>1, EntriesMap, NoneAssumption
    <3>3. CASE t.at = "starting" /\ f = Target(p)
      <4>1. Rewritten(p)[f] = p /\ f = t.active
        BY <1>1, <3>1, <3>3 DEF Rewritten, Target, Placed
      <4>2. r.active = t.active
        BY <1>1, <3>3 DEF After, Done, Terminal
      <4>3. QED
        BY <1>6, <4>1, <4>2 DEF HoldsIn
    <3>4. CASE ~(t.at = "starting" /\ f = Target(p))
      <4>1. f \in DOMAIN t.copy /\ Rewritten(p)[f] = t.copy[f] /\ f # Target(p)
        <5>1. CASE t.at = "starting"
          BY <3>1, <3>4, <5>1 DEF Rewritten
        <5>2. CASE t.at # "starting"
          BY <3>1, <5>2 DEF Rewritten
        <5>3. QED
          BY <5>1, <5>2
      <4>2. pi[t.copy[f]].at = "crashed" \/ HoldsIn(pi[t.copy[f]], f)
        BY <2>1, <4>1 DEF Owns
      <4>3. t.copy[f] # p
        <5>1. ~HoldsIn(t, f)
          BY <1>1, <3>2, <4>1 DEF HoldsIn, Target, Placed, Operation
        <5>2. t.at # "crashed"
          BY <1>1 DEF Alive
        <5>3. QED
          BY <4>2, <5>1, <5>2
      <4>4. QED
        BY <1>6, <3>2, <4>1, <4>2, <4>3
    <3>5. QED
      BY <3>3, <3>4
  <2>5. QED
    BY <1>3, <2>3, <2>4 DEF Owned
<1>9. QED
  BY <1>3, <1>5, <1>7, <1>8 DEF HandoffInv

\* A failed write promises nothing of the entries.
LEMMA FailStep ==
  ASSUME HandoffInv, NEW p \in Proc, WriteFails(p)
  PROVE  HandoffInv'
<1> DEFINE t == pi[p]
           r == IF t.at = "starting" THEN Done(p) ELSE After(p, FALSE)
<1>1. t \in Terminal /\ Placed(t) /\ t.at \in Operation
  BY DEF HandoffInv, TypeOK, WriteFails, Alive, Placed, Terminal
<1>2. r \in Terminal /\ Placed(r)
  <2>1. CASE t.at = "starting"
    <3>1. Done(p) \in Terminal
      BY <1>1, AfterPlaced DEF HandoffInv
    <3>2. Placed(Done(p))
      BY <1>1 DEF Done, Placed, Terminal, Operation
    <3>3. QED
      BY <2>1, <3>1, <3>2
  <2>2. CASE t.at # "starting"
    BY <1>1, <2>2, AfterPlaced DEF HandoffInv
  <2>3. QED
    BY <2>1, <2>2
<1>3. pi' = [pi EXCEPT ![p] = r] /\ handoff' = handoff /\ spoiled'
  BY DEF WriteFails
<1>4. failures' \in 0..MaxFailures
  BY BoundAssumption DEF WriteFails, HandoffInv, TypeOK
<1>5. TypeOK'
  BY <1>2, <1>3, <1>4 DEF WriteFails, history, HandoffInv, TypeOK
<1>6. \A q \in Proc : Placed(pi'[q])
  BY <1>2, <1>3 DEF HandoffInv, TypeOK
<1>7. QED
  BY <1>3, <1>5, <1>6 DEF HandoffInv

\* No file, no process: nothing is held and nothing written.
LEMMA InitHandoff == Init => HandoffInv
<1>1. SUFFICES ASSUME Init PROVE HandoffInv
  OBVIOUS
<1>2. Empty \in Entries /\ DOMAIN Empty = {}
  BY EmptyMap
<1>3. TypeOK
  <2>1. Off \in Terminal
    BY <1>2 DEF Off, Terminal
  <2>2. pi \in [Proc -> Terminal] /\ moves \in 0..MaxMoves /\ failures \in 0..MaxFailures
    BY <1>1, <2>1, BoundAssumption DEF Init
  <2>3. QED
    BY <1>1, <1>2, <2>2 DEF Init, TypeOK
<1>4. \A p \in Proc : pi[p] = Off /\ Placed(pi[p])
  BY <1>1 DEF Init, Placed, Off
<1>5. Owned
  BY <1>1, <1>2, <1>4 DEF Init, Owned, Owns, Exclusive, Copied, Off
<1>6. QED
  BY <1>3, <1>4, <1>5 DEF HandoffInv

\* The inductive invariant: the types, what each terminal has in hand and, as long as
\* no two operations on the file overlapped, who owns what it holds.
THEOREM HandoffCorrect == Spec => []HandoffInv
<1>1. ASSUME HandoffInv, [Next]_vars PROVE HandoffInv'
  <2>1. CASE UNCHANGED vars
    BY <1>1, <2>1 DEF vars, history, HandoffInv, TypeOK, Owned, Exclusive, Copied
  <2>2. ASSUME NEW p \in Proc, FileStep(p) PROVE HandoffInv'
    BY <1>1, <2>2, ReadStep, TruncateStep, WriteStep, FailStep DEF FileStep
  <2>3. ASSUME NEW p \in Proc, Crash(p) PROVE HandoffInv'
    BY <1>1, <2>3, CrashStep
  <2>4. ASSUME NEW p \in Proc,
               \/ Rc(p) \/ RcMessage(p) \/ RcStop(p) \/ Quit(p) \/ SocketCloses(p)
               \/ Remote(p) \/ Cancelled(p)
               \/ \E f \in File : Launch(p, f) \/ Replace(p, f) \/ Replaced(p, f)
        PROVE  HandoffInv'
    BY <1>1, <2>4, UserSteps
  <2>5. QED
    BY <1>1, <2>1, <2>2, <2>3, <2>4 DEF Next
<1>2. QED
  BY InitHandoff, <1>1, PTL DEF Spec

-----------------------------------------------------------------------------

\* Every reachable state of the file and the terminals is well typed.
THEOREM HandoffTypeOK == Spec => []TypeOK
<1>1. HandoffInv => TypeOK
  BY DEF HandoffInv
<1>2. QED
  BY <1>1, HandoffCorrect, PTL

\* Whatever the processes do, and wherever they are killed, an entry stands for RC
\* that is on, or for an operation that is about to drop or consume it, as long as
\* operations on the file did not overlap.
THEOREM EntriesAreOwned == Spec => []EntriesOwned
<1>1. HandoffInv => EntriesOwned
  BY DEF HandoffInv, Owned, Owns, HoldsIn, EntriesOwned, Holds
<1>2. QED
  BY <1>1, HandoffCorrect, PTL

-----------------------------------------------------------------------------
(* RC across replacements                                                  *)

(***************************************************************************)
(* That RC follows is not inductive either: it needs what the entries mean *)
(* while an operation has emptied the file.  Contents is the file as it    *)
(* was then.  Together: live processes have no session in hand in common   *)
(* but the shared ones (Apart), and each process p is consistent with the  *)
(* contents (Follows, Kept) and with what it was asked (Told).             *)
(***************************************************************************)
Contents == IF Written THEN handoff ELSE pi[CHOOSE q \in Proc : pi[q].io = "write"].copy

Names(f, p) == f \in DOMAIN Contents /\ Contents[f] = p

\* The sessions a terminal r has open, or is leaving.
Hand(r) == {r.file} \cup (IF r.at \in {"checking", "consuming"} THEN {r.previous} ELSE {})

Apart ==
  \A p, q \in Proc : p # q /\ Alive(p) /\ Alive(q) => Hand(pi[p]) \cap Hand(pi[q]) \subseteq shared

\* RC is on only between a start and a stop, and at rest has its session active.
Poised(r) ==
  /\ r.rc => r.at \in {"idle", "starting", "preparing"} /\ r.active = r.file
  /\ spoiled \/ (r.at = "idle" /\ r.active # None => r.rc)

\* The entry a session_start may find for p is of a runtime that had RC on.
Follows(p) ==
  /\ pi[p].at = "checking" /\ Names(pi[p].previous, p) => ran[p] /\ pi[p].io = "read"
  /\ pi[p].at = "consuming" => ran[p] \/ pi[p].previous \in shared

\* The entry of a session with RC stays until the session_start that follows.
Kept(p) ==
  /\ pi[p].rc => Names(pi[p].file, p)
  /\ pi[p].at = "checking" /\ ran[p] => Names(pi[p].previous, p)

\* RC that is on, or on its way there, was asked for, also what a phone has under
\* way; where nothing is under way, RC that was asked for is on, or on its way there.
Told(p) ==
  /\ pi[p].at = "off" => ~asked[p]
  /\ pi[p].rc \/ pi[p].at \in {"starting", "consuming", "preparing"} => asked[p]
  /\ pi[p].pending \/ pi[p].remote => asked[p]
  /\ pi[p].pending \/ pi[p].at = "preparing" => ~pi[p].remote
  /\ pi[p].at = "checking" /\ ran[p] => asked[p]
  /\ ~pi[p].pending /\ ~pi[p].remote =>
       /\ pi[p].at = "idle" /\ asked[p] => pi[p].rc
       /\ pi[p].at = "stopping" => ~asked[p]
       /\ pi[p].at = "checking" /\ asked[p] => ran[p]

FollowInv ==
  /\ HandoffInv /\ Apart
  /\ \A p \in Proc : Poised(pi[p])
  /\ spoiled \/ \A p \in Proc : Follows(p)
  /\ spoiled \/ shared # {} \/ \A p \in Proc : Kept(p) /\ Told(p)

\* What Contents is: the file, or what the one process that emptied it writes.
Filed ==
  /\ Written => Contents = handoff
  /\ \A q \in Proc : pi[q].io = "write" => Contents = pi[q].copy
  /\ Contents \in Entries /\ Owns(pi, Contents)

LEMMA ContentsFiled == HandoffInv /\ ~spoiled => Filed
<1>1. SUFFICES ASSUME HandoffInv, ~spoiled PROVE Filed
  OBVIOUS
<1>2. Owned /\ handoff \in Entries /\ \A q \in Proc : pi[q].copy \in Entries
  BY <1>1 DEF HandoffInv, TypeOK, Terminal
<1>3. CASE Written
  BY <1>2, <1>3 DEF Filed, Contents, Written, Owned
<1>4. CASE ~Written
  <2>1. PICK q \in Proc : pi[q].io = "write"
    BY <1>4 DEF Written
  <2>2. \A o \in Proc : pi[o].io = "write" => o = q
    BY <1>2, <2>1 DEF Owned, Exclusive
  <2>3. (CHOOSE o \in Proc : pi[o].io = "write") = q
    BY <2>1, <2>2
  <2>4. Contents = pi[q].copy
    BY <1>4, <2>3 DEF Contents
  <2>5. QED
    BY <1>2, <1>4, <2>1, <2>2, <2>4 DEF Filed, Owned, Copied
<1>5. QED
  BY <1>3, <1>4

LEMMA ContentsFiledNext == HandoffInv' /\ ~spoiled' => Filed'
BY ContentsFiled, PTL

\* A step of p other than its write leaves the contents as they were.
LEMMA ContentsKept ==
  ASSUME HandoffInv, HandoffInv', ~spoiled, ~spoiled', NEW p \in Proc,
         \A q \in Proc : q # p => pi'[q] = pi[q],
         pi[p].io # "write",
         \/ handoff' = handoff /\ pi'[p].io # "write"
         \/ pi'[p].io = "write" /\ pi[p].io = "truncate" /\ pi'[p].copy = pi[p].copy
  PROVE  Contents' = Contents
<1>1. Filed /\ Filed'
  BY ContentsFiled, ContentsFiledNext
<1>2. CASE handoff' = handoff /\ pi'[p].io # "write"
  <2>1. CASE Written
    <3>1. Written'
      BY <1>2, <2>1 DEF Written
    <3>2. QED
      BY <1>1, <1>2, <2>1, <3>1 DEF Filed
  <2>2. CASE ~Written
    <3>1. PICK q \in Proc : pi[q].io = "write"
      BY <2>2 DEF Written
    <3>2. q # p /\ pi'[q] = pi[q]
      BY <3>1
    <3>3. QED
      BY <1>1, <3>1, <3>2 DEF Filed
  <2>3. QED
    BY <2>1, <2>2
<1>3. CASE pi'[p].io = "write" /\ pi[p].io = "truncate" /\ pi'[p].copy = pi[p].copy
  <2>1. Written /\ pi[p].copy = handoff
    BY <1>3 DEF Written, HandoffInv, Owned, Exclusive, Copied
  <2>2. QED
    BY <1>1, <1>3, <2>1 DEF Filed
<1>4. QED
  BY <1>2, <1>3

\* A step that changes one process only, and the contents of no other's sessions.
LEMMA Alone ==
  ASSUME FollowInv, HandoffInv', NEW p \in Proc,
         \A q \in Proc : q # p => pi'[q] = pi[q] /\ asked'[q] = asked[q] /\ ran'[q] = ran[q],
         shared \subseteq shared', spoiled => spoiled',
         \A q \in Proc : q # p /\ Alive(q) /\ Alive(p)' => Hand(pi'[p]) \cap Hand(pi[q]) \subseteq shared',
         Poised(pi[p])',
         ~spoiled' => Follows(p)' /\ \A q \in Proc, f \in File : q # p /\ Names(f, q)' => Names(f, q),
         ~spoiled' /\ shared' = {} =>
           /\ Kept(p)' /\ Told(p)'
           /\ \A q \in Proc, f \in File :
                q # p /\ Alive(q) /\ f \in Hand(pi[q]) /\ Names(f, q) => Names(f, q)'
  PROVE  FollowInv'
<1>1. Apart'
  BY DEF FollowInv, Apart, Alive
<1>2. \A q \in Proc : Poised(pi[q])'
  BY DEF FollowInv, Poised
<1>3. \A q \in Proc : pi[q].at \in {"checking", "consuming"} => pi[q].previous \in File
  BY DEF FollowInv, HandoffInv, Placed
<1>4. ASSUME ~spoiled', NEW q \in Proc PROVE Follows(q)'
  BY <1>3, <1>4 DEF FollowInv, Follows
<1>5. ASSUME ~spoiled', shared' = {}, NEW q \in Proc PROVE Kept(q)' /\ Told(q)'
  <2>1. CASE q = p
    BY <1>5, <2>1
  <2>2. CASE q # p
    <3>1. Kept(q) /\ Told(q)
      BY <1>5 DEF FollowInv
    <3>2. Told(q)'
      BY <2>2, <3>1 DEF Told
    <3>3. Placed(pi[q]) /\ Poised(pi[q])
      BY DEF FollowInv, HandoffInv
    <3>4. /\ pi[q].rc => Alive(q) /\ pi[q].file \in File
          /\ pi[q].at = "checking" => Alive(q) /\ pi[q].previous \in File
      BY <3>3 DEF Alive, Placed, Poised
    <3>5. Kept(q)'
      BY <1>5, <2>2, <3>1, <3>4 DEF Kept, Hand
    <3>6. QED
      BY <3>2, <3>5
  <2>3. QED
    BY <2>1, <2>2
<1>6. QED
  BY <1>1, <1>2, <1>4, <1>5 DEF FollowInv

\* What a callback that begins finds and leaves on the file.
LEMMA BeginsKeep ==
  ASSUME FollowInv, HandoffInv', NEW p \in Proc, NEW r \in Terminal,
         pi' = [pi EXCEPT ![p] = r], handoff' = handoff, spoiled' = spoiled,
         pi[p].io = "read", r.io = "read"
  PROVE  /\ pi'[p] = r
         /\ \A q \in Proc : q # p => pi'[q] = pi[q]
         /\ ~spoiled => Contents' = Contents /\ Filed
         /\ \A f, q : ~spoiled => (Names(f, q)' <=> Names(f, q))
<1>1. /\ pi'[p] = r
      /\ \A q \in Proc : q # p => pi'[q] = pi[q]
  BY DEF FollowInv, HandoffInv, TypeOK
<1>2. ~spoiled => Contents' = Contents /\ Filed
  BY <1>1, ContentsKept, ContentsFiled DEF FollowInv
<1>3. QED
  BY <1>1, <1>2 DEF Names

LEMMA StartsFollow ==
  ASSUME FollowInv, HandoffInv', NEW p \in Proc, Rc(p) \/ RcMessage(p)
  PROVE  FollowInv'
<1> DEFINE t == pi[p]
<1>0. PICK remote \in BOOLEAN : Starts(p, remote) /\ (remote => pi[p].remote)
  BY DEF Rc, RcMessage, FollowInv, HandoffInv, TypeOK, Terminal
<1> DEFINE r == [t EXCEPT !.at = "starting", !.active = t.file,
                          !.commandable = TRUE, !.remote = remote]
<1>1. /\ t \in Terminal /\ t.at = "idle" /\ t.io = "read"
      /\ pi' = [pi EXCEPT ![p] = r] /\ handoff' = handoff /\ spoiled' = spoiled
      /\ shared' = shared /\ ran' = ran
      /\ asked'[p] \/ (t.remote /\ asked' = asked)
      /\ \A q \in Proc : q # p => asked'[q] = asked[q]
  <2>1. t \in Terminal /\ t.at = "idle" /\ Placed(t) /\ asked \in [Proc -> BOOLEAN]
    BY DEF Rc, RcMessage, Asks, Begins, FollowInv, HandoffInv, TypeOK
  <2>2. t.io = "read"
    BY <2>1 DEF Placed, Operation
  <2>3. (asked'[p] \/ (t.remote /\ asked' = asked)) /\ \A q \in Proc : q # p => asked'[q] = asked[q]
    <3>1. CASE Rc(p)
      <4>1. asked' = [asked EXCEPT ![p] = TRUE]
        BY <3>1 DEF Rc
      <4>2. asked'[p]
        BY <2>1, <4>1
      <4>3. \A q \in Proc : q # p => asked'[q] = asked[q]
        BY <2>1, <4>1
      <4>4. QED
        BY <4>2, <4>3
    <3>2. CASE RcMessage(p)
      BY <3>2 DEF RcMessage
    <3>3. QED
      BY <3>1, <3>2
  <2>4. QED
    BY <1>0, <2>1, <2>2, <2>3 DEF Starts
<1>2. r \in Terminal /\ r.io = "read"
  BY <1>1, EmptyMap DEF FollowInv, HandoffInv, TypeOK, Placed, Terminal
<1>3. /\ pi'[p] = r
      /\ \A q \in Proc : q # p => pi'[q] = pi[q]
      /\ \A f, q : ~spoiled => (Names(f, q)' <=> Names(f, q))
  BY <1>1, <1>2, BeginsKeep
<1>4. /\ r.at = "starting" /\ r.file = t.file /\ r.rc = t.rc /\ r.active = t.file
      /\ r.pending = t.pending /\ r.remote = remote
  BY <1>1 DEF Terminal
<1>5. Hand(r) = Hand(t)
  BY <1>1, <1>4 DEF Hand
<1>6. \A q \in Proc : q # p /\ Alive(q) /\ Alive(p)' => Hand(pi'[p]) \cap Hand(pi[q]) \subseteq shared'
  BY <1>1, <1>3, <1>5 DEF FollowInv, Apart, Alive
<1>7. Poised(pi[p])'
  BY <1>1, <1>3, <1>4 DEF FollowInv, Poised
<1>8. Follows(p)'
  BY <1>3, <1>4 DEF Follows
<1>9. ~spoiled' /\ shared' = {} => Kept(p)' /\ Told(p)'
  BY <1>0, <1>1, <1>3, <1>4 DEF FollowInv, Kept, Told
<1>10. QED
  BY <1>1, <1>3, <1>6, <1>7, <1>8, <1>9, Alone

LEMMA StopsFollow ==
  ASSUME FollowInv, HandoffInv', NEW p \in Proc, RcStop(p) \/ Quit(p)
  PROVE  FollowInv'
<1> DEFINE t == pi[p]
<1>1. /\ t \in Terminal /\ t.at = "idle" /\ t.io = "read"
      /\ handoff' = handoff /\ spoiled' = spoiled
      /\ shared' = shared /\ ran' = ran
      /\ asked'[p] = (t.pending \/ t.remote) \/ (asked' = asked /\ Quit(p))
      /\ \A q \in Proc : q # p => asked'[q] = asked[q]
  <2>1. t \in Terminal /\ t.at = "idle" /\ Placed(t) /\ asked \in [Proc -> BOOLEAN]
    BY DEF RcStop, Quit, Asks, Begins, FollowInv, HandoffInv, TypeOK
  <2>2. t.io = "read"
    BY <2>1 DEF Placed, Operation
  <2>3. CASE RcStop(p)
    <3>1. asked' = [asked EXCEPT ![p] = t.pending \/ t.remote]
      BY <2>3 DEF RcStop
    <3>2. asked'[p] = (t.pending \/ t.remote) /\ \A q \in Proc : q # p => asked'[q] = asked[q]
      BY <2>1, <3>1
    <3>3. handoff' = handoff /\ spoiled' = spoiled /\ shared' = shared /\ ran' = ran
      BY <2>3 DEF RcStop
    <3>4. QED
      BY <2>1, <2>2, <3>2, <3>3
  <2>4. CASE Quit(p)
    BY <2>1, <2>2, <2>4 DEF Quit, history
  <2>5. QED
    BY <2>3, <2>4
<1>2. PICK at \in {"stopping", "quitting", "idle", "gone"} :
        /\ pi' = [pi EXCEPT ![p].rc = FALSE, ![p].closing = t.closing \/ t.rc, ![p].at = at]
        /\ at = "idle" => t.active = None
        /\ Quit(p) => at \in {"quitting", "gone"}
  BY DEF RcStop, Quit, Stop
<1> DEFINE r == [t EXCEPT !.rc = FALSE, !.closing = t.closing \/ t.rc, !.at = at]
<1>3. /\ r \in Terminal /\ r.io = "read" /\ pi' = [pi EXCEPT ![p] = r]
      /\ r.at = at /\ r.file = t.file /\ r.rc = FALSE /\ r.active = t.active
      /\ r.pending = t.pending /\ r.remote = t.remote
  BY <1>1, <1>2 DEF Terminal
<1>4. /\ pi'[p] = r
      /\ \A q \in Proc : q # p => pi'[q] = pi[q]
      /\ \A f, q : ~spoiled => (Names(f, q)' <=> Names(f, q))
  BY <1>1, <1>3, BeginsKeep
<1>5. Hand(r) = Hand(t)
  BY <1>1, <1>3 DEF Hand
<1>6. \A q \in Proc : q # p /\ Alive(q) /\ Alive(p)' => Hand(pi'[p]) \cap Hand(pi[q]) \subseteq shared'
  BY <1>1, <1>4, <1>5 DEF FollowInv, Apart, Alive
<1>7. Poised(pi[p])'
  BY <1>2, <1>3, <1>4 DEF Poised
<1>8. Follows(p)' /\ Kept(p)'
  BY <1>2, <1>3, <1>4 DEF Follows, Kept
<1>9. ~spoiled' /\ shared' = {} => Told(p)'
  BY <1>1, <1>2, <1>3, <1>4 DEF FollowInv, Told
<1>10. QED
  BY <1>1, <1>4, <1>6, <1>7, <1>8, <1>9, Alone

LEMMA RemoteFollows ==
  ASSUME FollowInv, HandoffInv', NEW p \in Proc, Remote(p) \/ Cancelled(p)
  PROVE  FollowInv'
<1> DEFINE t == pi[p]
<1>1. /\ t \in Terminal /\ t.at = "idle" /\ t.io = "read"
      /\ handoff' = handoff /\ spoiled' = spoiled /\ shared' = shared /\ ran' = ran
      /\ \A q \in Proc : q # p => asked'[q] = asked[q]
  BY DEF Remote, Cancelled, Asks, Begins, history, FollowInv, HandoffInv, TypeOK, Placed, Operation
<1>2. PICK at \in {"preparing", "idle"}, pending \in BOOLEAN :
        /\ pi' = [pi EXCEPT ![p] = [t EXCEPT !.at = at, !.pending = pending]]
        /\ pending \/ at = "preparing" => asked'[p] /\ ~t.remote
        /\ at = "idle" /\ ~pending => t.pending /\ asked'[p] = t.rc
  <2>1. CASE Remote(p)
    <3>1. asked'[p] /\ ~t.remote
      BY <2>1 DEF Remote, CommandArrives, FollowInv, HandoffInv, TypeOK
    <3>2. CASE t.active # None
      BY <1>1, <2>1, <3>1, <3>2 DEF Remote, Terminal
    <3>3. CASE t.active = None
      <4>1. [t EXCEPT !.pending = TRUE] = [t EXCEPT !.at = "idle", !.pending = TRUE]
        BY <1>1 DEF Terminal
      <4>2. pi' = [pi EXCEPT ![p] = [t EXCEPT !.at = "idle", !.pending = TRUE]]
        BY <2>1, <3>3, <4>1 DEF Remote
      <4>3. QED
        BY <3>1, <4>2
    <3>4. QED
      BY <3>2, <3>3
  <2>2. CASE Cancelled(p)
    <3>1. pi' = [pi EXCEPT ![p] = [t EXCEPT !.at = "idle", !.pending = FALSE]]
      <4>1. [t EXCEPT !.pending = FALSE] = [t EXCEPT !.at = "idle", !.pending = FALSE]
        BY <1>1 DEF Terminal
      <4>2. QED
        BY <2>2, <4>1 DEF Cancelled
    <3>2. t.pending /\ asked'[p] = t.rc
      BY <2>2 DEF Cancelled, FollowInv, HandoffInv, TypeOK
    <3>3. QED
      BY <3>1, <3>2
  <2>3. QED
    BY <2>1, <2>2
<1> DEFINE r == [t EXCEPT !.at = at, !.pending = pending]
<1>3. /\ r \in Terminal /\ r.io = "read"
      /\ r.at = at /\ r.file = t.file /\ r.rc = t.rc /\ r.active = t.active
      /\ r.pending = pending /\ r.remote = t.remote
  BY <1>1 DEF Terminal
<1>4. /\ pi'[p] = r
      /\ \A q \in Proc : q # p => pi'[q] = pi[q]
      /\ \A f, q : ~spoiled => (Names(f, q)' <=> Names(f, q))
  BY <1>1, <1>2, <1>3, BeginsKeep
<1>5. Hand(r) = Hand(t)
  BY <1>1, <1>3 DEF Hand
<1>6. \A q \in Proc : q # p /\ Alive(q) /\ Alive(p)' => Hand(pi'[p]) \cap Hand(pi[q]) \subseteq shared'
  BY <1>1, <1>4, <1>5 DEF FollowInv, Apart, Alive
<1>7. Poised(pi[p])'
  BY <1>1, <1>3, <1>4 DEF FollowInv, Poised
<1>8. Follows(p)'
  BY <1>3, <1>4 DEF Follows
<1>9. ~spoiled' /\ shared' = {} => Kept(p)' /\ Told(p)'
  BY <1>1, <1>2, <1>3, <1>4 DEF FollowInv, Kept, Told
<1>10. QED
  BY <1>1, <1>4, <1>6, <1>7, <1>8, <1>9, Alone

LEMMA ClosesFollow ==
  ASSUME FollowInv, HandoffInv', NEW p \in Proc, SocketCloses(p)
  PROVE  FollowInv'
<1> DEFINE t == pi[p]
           r == [t EXCEPT !.closing = FALSE]
<1>1. /\ t \in Terminal /\ t.at = "idle" /\ t.io = "read" /\ UNCHANGED history
      /\ pi' = [pi EXCEPT ![p] = r] /\ handoff' = handoff /\ spoiled' = spoiled
  BY DEF SocketCloses, Begins, FollowInv, HandoffInv, TypeOK, Placed, Operation
<1>2. /\ r \in Terminal /\ r.io = "read"
      /\ r.at = "idle" /\ r.file = t.file /\ r.rc = t.rc /\ r.active = t.active
      /\ r.pending = t.pending /\ r.remote = t.remote
  BY <1>1 DEF Terminal
<1>3. /\ pi'[p] = r
      /\ \A q \in Proc : q # p => pi'[q] = pi[q]
      /\ \A f, q : ~spoiled => (Names(f, q)' <=> Names(f, q))
  BY <1>1, <1>2, BeginsKeep
<1>4. \A q \in Proc : q # p /\ Alive(q) /\ Alive(p)' => Hand(pi'[p]) \cap Hand(pi[q]) \subseteq shared'
  BY <1>1, <1>2, <1>3 DEF FollowInv, Apart, Alive, Hand, history
<1>5. Poised(pi[p])' /\ Follows(p)'
  BY <1>1, <1>2, <1>3 DEF FollowInv, Poised, Follows
<1>6. ~spoiled' /\ shared' = {} => Kept(p)' /\ Told(p)'
  BY <1>1, <1>2, <1>3 DEF FollowInv, Kept, Told, history
<1>7. QED
  BY <1>1, <1>3, <1>4, <1>5, <1>6, Alone DEF history

LEMMA LaunchFollows ==
  ASSUME FollowInv, HandoffInv', NEW p \in Proc, NEW f \in File, Launch(p, f)
  PROVE  FollowInv'
<1> DEFINE t == pi[p]
           r == [t EXCEPT !.at = "idle", !.file = f]
<1>1. /\ t \in Terminal /\ t.at = "off" /\ t.io = "read" /\ t.active = None /\ t.rc = FALSE
      /\ pi' = [pi EXCEPT ![p] = r] /\ handoff' = handoff /\ spoiled' = spoiled
      /\ shared' = shared \cup ({f} \cap OpenElsewhere(p))
      /\ ran' = ran /\ asked' = asked
  <2>1. t \in Terminal /\ Placed(t) /\ Poised(t) /\ t.at = "off"
    BY DEF Launch, FollowInv, HandoffInv, TypeOK
  <2>2. t.io = "read" /\ t.active = None /\ t.rc = FALSE
    BY <2>1 DEF Placed, Poised, Operation, Terminal
  <2>3. QED
    BY <2>1, <2>2 DEF Launch
<1>2. /\ r \in Terminal /\ r.io = "read"
      /\ r.at = "idle" /\ r.file = f /\ r.rc = FALSE /\ r.active = None
  BY <1>1 DEF Terminal
<1>3. /\ pi'[p] = r
      /\ \A q \in Proc : q # p => pi'[q] = pi[q]
      /\ \A g, q : ~spoiled => (Names(g, q)' <=> Names(g, q))
  BY <1>1, <1>2, BeginsKeep
<1>4. Hand(r) = {f}
  BY <1>2 DEF Hand
<1>5. \A q \in Proc : q # p /\ Alive(q) /\ Alive(p)' => Hand(pi'[p]) \cap Hand(pi[q]) \subseteq shared'
  BY <1>1, <1>3, <1>4 DEF OpenElsewhere, Hand
<1>6. Poised(pi[p])' /\ Follows(p)' /\ Kept(p)'
  BY <1>2, <1>3 DEF Poised, Follows, Kept
<1>7. ~spoiled' /\ shared' = {} => Told(p)'
  BY <1>1, <1>2, <1>3 DEF FollowInv, Told
<1>8. QED
  BY <1>1, <1>3, <1>5, <1>6, <1>7, Alone

\* The old runtime goes down and the new one looks for its entry.
LEMMA ReplacesFollow ==
  ASSUME FollowInv, HandoffInv', NEW p \in Proc, NEW f \in File, Replace(p, f) \/ Replaced(p, f)
  PROVE  FollowInv'
<1> DEFINE t == pi[p]
<1>1. PICK remote \in BOOLEAN :
        NewRuntime(p, f, remote) /\ (IF remote THEN t.pending ELSE ~t.pending /\ ~t.remote)
  BY DEF Replace, Replaced
<1> DEFINE r == [Off EXCEPT !.at = "checking", !.file = f, !.previous = t.file, !.remote = remote]
<1>2. /\ t \in Terminal /\ t.at = "idle" /\ t.io = "read"
      /\ pi' = [pi EXCEPT ![p] = r] /\ handoff' = handoff /\ spoiled' = spoiled
      /\ shared' = shared \cup ({f} \cap OpenElsewhere(p)) /\ asked' = asked
      /\ ran'[p] = t.rc /\ \A q \in Proc : q # p => ran'[q] = ran[q]
  BY <1>1 DEF NewRuntime, Replace, Replaced, Asks, Begins,
              FollowInv, HandoffInv, TypeOK, Placed, Operation
<1>3. /\ r \in Terminal /\ r.io = "read" /\ r.at = "checking" /\ r.file = f
      /\ r.previous = t.file /\ r.rc = FALSE /\ r.active = None
      /\ r.pending = FALSE /\ r.remote = remote
  BY <1>2, EmptyMap DEF Terminal, Off, FollowInv, HandoffInv, Placed
<1>4. /\ pi'[p] = r
      /\ \A q \in Proc : q # p => pi'[q] = pi[q]
      /\ \A g, q : ~spoiled => (Names(g, q)' <=> Names(g, q))
      /\ ~spoiled => Filed
  BY <1>2, <1>3, BeginsKeep
<1>5. Hand(r) = {f, t.file} /\ t.file \in Hand(t)
  BY <1>3 DEF Hand
<1>6. \A q \in Proc : q # p /\ Alive(q) /\ Alive(p)' => Hand(pi'[p]) \cap Hand(pi[q]) \subseteq shared'
  <2>1. SUFFICES ASSUME NEW q \in Proc, q # p, Alive(q), NEW g \in Hand(pi[q]), g \in {f, t.file}
                 PROVE  g \in shared'
    BY <1>4, <1>5
  <2>2. CASE g = f
    BY <1>2, <2>1, <2>2 DEF OpenElsewhere, Hand
  <2>3. CASE g = t.file
    BY <1>2, <1>5, <2>1, <2>3 DEF FollowInv, Apart, Alive
  <2>4. QED
    BY <2>1, <2>2, <2>3
<1>7. Poised(pi[p])'
  BY <1>3, <1>4 DEF Poised
<1>8. ASSUME ~spoiled' PROVE Follows(p)'
  <2>1. SUFFICES ASSUME Names(t.file, p) PROVE t.rc
    BY <1>2, <1>3, <1>4, <1>8 DEF Follows
  <2>2. HoldsIn(t, t.file)
    BY <1>2, <1>4, <1>8, <2>1 DEF Filed, Owns, Names
  <2>3. t.file # None
    BY <1>2, NoneAssumption DEF FollowInv, HandoffInv, Placed
  <2>4. QED
    BY <1>2, <1>8, <2>2, <2>3 DEF HoldsIn, FollowInv, Poised
<1>9. ~spoiled' /\ shared' = {} => Kept(p)' /\ Told(p)'
  BY <1>1, <1>2, <1>3, <1>4 DEF FollowInv, Kept, Told
<1>10. QED
  BY <1>2, <1>4, <1>6, <1>7, <1>8, <1>9, Alone

LEMMA CrashFollows ==
  ASSUME FollowInv, HandoffInv', NEW p \in Proc, Crash(p)
  PROVE  FollowInv'
<1> DEFINE t == pi[p]
           r == [t EXCEPT !.at = "crashed", !.rc = FALSE, !.io = "read"]
<1>1. /\ t \in Terminal /\ pi' = [pi EXCEPT ![p] = r] /\ handoff' = handoff
      /\ spoiled' = (spoiled \/ t.io = "write") /\ UNCHANGED history
  BY DEF Crash, FollowInv, HandoffInv, TypeOK
<1>2. r.io = "read" /\ r.at = "crashed" /\ r.rc = FALSE
  BY <1>1 DEF Terminal
<1>3. /\ pi'[p] = r
      /\ \A q \in Proc : q # p => pi'[q] = pi[q]
  BY <1>1 DEF FollowInv, HandoffInv, TypeOK
<1>4. ~spoiled' => Contents' = Contents
  BY <1>1, <1>2, <1>3, ContentsKept DEF FollowInv
<1>5. ~Alive(p)'
  BY <1>2, <1>3 DEF Alive
<1>6. Poised(pi[p])' /\ Follows(p)' /\ Kept(p)'
  BY <1>2, <1>3 DEF Poised, Follows, Kept
<1>7. ~spoiled' /\ shared' = {} => Told(p)'
  <2>1. r.pending = t.pending /\ r.remote = t.remote
    BY <1>1 DEF Terminal
  <2>2. QED
    BY <1>1, <1>2, <1>3, <2>1 DEF FollowInv, Told, history
<1>8. QED
  BY <1>1, <1>3, <1>4, <1>5, <1>6, <1>7, Alone DEF history, Names

\* How an operation that is over leaves its process, whatever it found.
LEMMA AfterPoised ==
  ASSUME FollowInv, NEW p \in Proc, pi[p].at \in Operation, NEW found \in BOOLEAN
  PROVE  /\ Hand(After(p, found)) \subseteq Hand(pi[p])
         /\ Poised(After(p, found))
         /\ After(p, found).rc => pi[p].at = "starting"
         /\ After(p, found).at # "checking"
         /\ After(p, found).at = "consuming" => pi[p].at = "checking" /\ found
<1> DEFINE t == pi[p]
<1>1. t \in Terminal /\ Placed(t) /\ Poised(t) /\ Empty \in Entries
  BY EmptyMap DEF FollowInv, HandoffInv, TypeOK
<1>2. /\ Done(p) \in Terminal /\ Done(p).at = "idle" /\ Done(p).rc = t.rc
      /\ Done(p).active = t.active /\ Done(p).file = t.file /\ Done(p).previous = t.previous
  BY <1>1 DEF Done, Terminal
<1>3. CASE t.at = "starting"
  BY <1>1, <1>2, <1>3 DEF After, Hand, Poised, Placed, Terminal
<1>4. CASE t.at = "stopping"
  BY <1>1, <1>2, <1>4 DEF After, Hand, Poised, Terminal
<1>5. CASE t.at = "quitting"
  BY <1>1, <1>2, <1>5 DEF After, Hand, Poised, Terminal
<1>6. CASE t.at = "preparing"
  BY <1>1, <1>2, <1>6 DEF After, Hand, Poised, Terminal
<1>7. CASE t.at = "checking"
  BY <1>1, <1>2, <1>7 DEF After, AfterCheck, Hand, Poised, Placed, Terminal
<1>8. CASE t.at = "consuming"
  BY <1>1, <1>2, <1>8 DEF After, AfterConsume, Hand, Poised, Placed, Terminal
<1>9. QED
  BY <1>3, <1>4, <1>5, <1>6, <1>7, <1>8 DEF Operation

\* What a session_start finds is its own entry, or the session is open elsewhere.
LEMMA FoundFollows ==
  ASSUME FollowInv, NEW p \in Proc, pi[p].at = "checking", Written, ~spoiled, Found(p, handoff)
  PROVE  ran[p] \/ pi[p].previous \in shared
<1> DEFINE f == pi[p].previous
           q == handoff[f]
<1>1. f \in DOMAIN handoff /\ Alive(q) /\ handoff \in Entries /\ f \in Hand(pi[p]) /\ Alive(p)
  BY DEF Found, Target, FollowInv, HandoffInv, TypeOK, Hand, Alive
<1>2. q \in Proc /\ f \in File /\ f # None
  BY <1>1, EntriesMap, NoneAssumption
<1>3. Filed /\ Contents = handoff
  BY ContentsFiled DEF FollowInv, Filed
<1>4. CASE q = p
  BY <1>1, <1>3, <1>4 DEF FollowInv, Follows, Names
<1>5. CASE q # p
  <2>1. HoldsIn(pi[q], f) /\ Placed(pi[q])
    BY <1>1, <1>2, <1>3 DEF Filed, Owns, Alive, FollowInv, HandoffInv
  <2>2. f \in Hand(pi[q])
    BY <1>2, <2>1 DEF HoldsIn, Placed, Hand
  <2>3. QED
    BY <1>1, <1>2, <1>5, <2>2 DEF FollowInv, Apart
<1>6. QED
  BY <1>4, <1>5

\* The operation that is over leaves RC as asked, or on its way there.
LEMMA AfterTold ==
  ASSUME FollowInv, NEW p \in Proc, pi[p].at \in Operation, NEW found \in BOOLEAN,
         Told(p), Kept(p),
         pi[p].at = "checking" => (found <=> ran[p]),
         UNCHANGED history, pi'[p] = After(p, found)
  PROVE  Told(p)'
<1> DEFINE t == pi[p]
<1>1. t \in Terminal /\ Placed(t) /\ Poised(t) /\ Empty \in Entries
  BY EmptyMap DEF FollowInv, HandoffInv, TypeOK
<1>2. /\ Done(p) \in Terminal /\ Done(p).at = "idle" /\ Done(p).rc = t.rc
      /\ Done(p).pending = t.pending /\ Done(p).remote = t.remote
  BY <1>1 DEF Done, Terminal
<1>3. CASE t.at = "starting"
  BY <1>1, <1>2, <1>3 DEF After, Told, history, Terminal
<1>4. CASE t.at = "stopping"
  <2>1. t.rc = FALSE
    BY <1>1, <1>4 DEF Poised, Terminal
  <2>2. QED
    BY <1>1, <1>2, <1>4, <2>1 DEF After, Told, history, Terminal
<1>5. CASE t.at = "quitting"
  BY <1>1, <1>2, <1>5 DEF After, Told, history, Terminal
<1>6. CASE t.at = "preparing"
  BY <1>1, <1>2, <1>6 DEF After, Told, history, Terminal
<1>7. CASE t.at = "checking"
  <2>1. t.rc = FALSE
    BY <1>1, <1>7 DEF Poised, Terminal
  <2>2. QED
    BY <1>1, <1>2, <1>7, <2>1 DEF After, AfterCheck, Told, history, Terminal
<1>8. CASE t.at = "consuming"
  BY <1>1, <1>2, <1>8 DEF After, AfterConsume, Told, history, Terminal
<1>9. QED
  BY <1>3, <1>4, <1>5, <1>6, <1>7, <1>8 DEF Operation

LEMMA ReadFollows ==
  ASSUME FollowInv, HandoffInv', NEW p \in Proc, ReadFile(p)
  PROVE  FollowInv'
<1> DEFINE t == pi[p]
           r == IF Writes(p, handoff) THEN [t EXCEPT !.io = "truncate", !.copy = handoff]
                ELSE After(p, Found(p, handoff))
<1>1. /\ t \in Terminal /\ t.io = "read" /\ t.at \in Operation /\ Alive(p)
      /\ pi' = [pi EXCEPT ![p] = r] /\ handoff' = handoff /\ UNCHANGED history
      /\ spoiled => spoiled'
      /\ ~spoiled' => Written
  <2>1. t \in Terminal
    BY DEF FollowInv, HandoffInv, TypeOK
  <2>2. Alive(p) /\ t.io = "read" /\ t.at \in Operation
    BY <2>1 DEF ReadFile, InOperation, Alive, Operation, Terminal
  <2>3. QED
    BY <2>1, <2>2 DEF ReadFile, Written
<1>2. /\ pi'[p] = r
      /\ \A q \in Proc : q # p => pi'[q] = pi[q]
  BY <1>1 DEF FollowInv, HandoffInv, TypeOK
<1>3. Found(p, handoff) \in BOOLEAN
  BY DEF Found, Alive
<1>4. r.io # "write"
  <2>1. ~Writes(p, handoff) => r.io = "read"
    BY <1>1, <1>3, AfterPlaced DEF FollowInv, HandoffInv
  <2>2. QED
    BY <1>1, <2>1 DEF Terminal
<1>5. ~spoiled' => Contents' = Contents /\ Contents = handoff
  BY <1>1, <1>2, <1>4, ContentsKept, ContentsFiled DEF FollowInv, Filed
<1>6. \A f : \A q \in Proc : ~spoiled' => (Names(f, q)' <=> Names(f, q))
  BY <1>5 DEF Names
<1>7. Writes(p, handoff) =>
        r.at = t.at /\ r.file = t.file /\ r.previous = t.previous /\ r.active = t.active
          /\ r.rc = t.rc /\ r.pending = t.pending /\ r.remote = t.remote
  BY <1>1 DEF Terminal
<1>8. \A q \in Proc : q # p /\ Alive(q) /\ Alive(p)' => Hand(pi'[p]) \cap Hand(pi[q]) \subseteq shared'
  <2>1. Hand(r) \subseteq Hand(t)
    BY <1>1, <1>3, <1>7, AfterPoised DEF Hand
  <2>2. QED
    BY <1>1, <1>2, <2>1 DEF FollowInv, Apart, history
<1>9. Poised(pi[p])'
  <2>1. Poised(r)
    <3>1. CASE Writes(p, handoff)
      BY <1>7, <3>1 DEF FollowInv, Poised
    <3>2. CASE ~Writes(p, handoff)
      BY <1>1, <1>3, <3>2, AfterPoised
    <3>3. QED
      BY <3>1, <3>2
  <2>2. QED
    BY <1>1, <1>2, <2>1 DEF Poised
<1>10. ASSUME ~spoiled' PROVE Follows(p)'
  <2>1. CASE Writes(p, handoff)
    <3>1. Follows(p) /\ pi'[p].at = t.at /\ pi'[p].previous = t.previous
      BY <1>1, <1>2, <1>7, <1>10, <2>1 DEF FollowInv
    <3>2. t.at = "checking" => ~Names(t.previous, p)
      BY <1>1, <1>5, <1>10, <2>1 DEF Writes, Found, Target, Names
    <3>3. QED
      BY <1>1, <1>6, <1>10, <3>1, <3>2 DEF Follows, history
  <2>2. CASE ~Writes(p, handoff)
    <3>1. r.at # "checking" /\ (r.at = "consuming" => t.at = "checking" /\ Found(p, handoff))
      BY <1>1, <1>3, <2>2, AfterPoised
    <3>2. r.at = "consuming" => r.previous = t.previous
      BY <1>1, <2>2, <3>1 DEF After, AfterCheck, Done, Terminal
    <3>3. r.at = "consuming" => ran[p] \/ t.previous \in shared
      BY <1>1, <1>10, <3>1, FoundFollows
    <3>4. QED
      BY <1>1, <1>2, <3>1, <3>2, <3>3 DEF Follows, history
  <2>3. QED
    BY <2>1, <2>2
<1>11. ASSUME ~spoiled', shared' = {} PROVE Kept(p)' /\ Told(p)'
  <2>1. Kept(p) /\ Told(p)
    BY <1>1, <1>11 DEF FollowInv, history
  <2>2. CASE Writes(p, handoff)
    BY <1>1, <1>2, <1>6, <1>7, <1>11, <2>1, <2>2 DEF Kept, Told, history
  <2>3. CASE ~Writes(p, handoff)
    <3>1. t.at # "starting"
      BY <2>3 DEF Writes
    <3>2. Kept(p)'
      BY <1>1, <1>2, <1>3, <2>3, <3>1, AfterPoised DEF Kept
    <3>3. t.at = "checking" => (Found(p, handoff) <=> ran[p])
      <4>1. ASSUME t.at = "checking", Found(p, handoff) PROVE ran[p]
        BY <1>1, <1>11, <4>1, FoundFollows DEF history
      <4>2. ASSUME t.at = "checking", ran[p] PROVE Found(p, handoff)
        BY <1>1, <1>5, <1>11, <2>1, <4>2 DEF Kept, Names, Found, Target
      <4>3. QED
        BY <4>1, <4>2
    <3>4. Told(p)'
      BY <1>1, <1>2, <1>3, <2>1, <2>3, <3>3, AfterTold
    <3>5. QED
      BY <3>2, <3>4
  <2>4. QED
    BY <2>2, <2>3
<1>12. QED
  BY <1>1, <1>2, <1>6, <1>8, <1>9, <1>10, <1>11, Alone DEF history

LEMMA TruncateFollows ==
  ASSUME FollowInv, HandoffInv', NEW p \in Proc, Truncate(p)
  PROVE  FollowInv'
<1> DEFINE t == pi[p]
           r == [t EXCEPT !.io = "write"]
<1>1. /\ t \in Terminal /\ t.io = "truncate" /\ Alive(p)
      /\ pi' = [pi EXCEPT ![p] = r] /\ UNCHANGED history /\ spoiled' = spoiled
  BY DEF Truncate, FollowInv, HandoffInv, TypeOK
<1>2. /\ r.io = "write" /\ r.copy = t.copy /\ r.at = t.at /\ r.file = t.file
      /\ r.previous = t.previous /\ r.active = t.active /\ r.rc = t.rc
      /\ r.pending = t.pending /\ r.remote = t.remote
  BY <1>1 DEF Terminal
<1>3. /\ pi'[p] = r
      /\ \A q \in Proc : q # p => pi'[q] = pi[q]
  BY <1>1 DEF FollowInv, HandoffInv, TypeOK
<1>4. ~spoiled' => Contents' = Contents
  BY <1>1, <1>2, <1>3, ContentsKept DEF FollowInv
<1>5. \A f : \A q \in Proc : ~spoiled' => (Names(f, q)' <=> Names(f, q))
  BY <1>4 DEF Names
<1>6. \A q \in Proc : q # p /\ Alive(q) /\ Alive(p)' => Hand(pi'[p]) \cap Hand(pi[q]) \subseteq shared'
  <2>1. Hand(r) = Hand(t)
    BY <1>2 DEF Hand
  <2>2. QED
    BY <1>1, <1>3, <2>1 DEF FollowInv, Apart, history
<1>7. Poised(pi[p])'
  BY <1>1, <1>2, <1>3 DEF FollowInv, Poised
<1>8. ~spoiled' => Follows(p)'
  BY <1>1, <1>2, <1>3, <1>5 DEF FollowInv, Follows, history
<1>9. ~spoiled' /\ shared' = {} => Kept(p)' /\ Told(p)'
  BY <1>1, <1>2, <1>3, <1>5 DEF FollowInv, Kept, Told, history
<1>10. QED
  BY <1>1, <1>3, <1>5, <1>6, <1>7, <1>8, <1>9, Alone DEF history

\* The write changes the entry it is about, and no other process has that session.
LEMMA WriteFollows ==
  ASSUME FollowInv, HandoffInv', NEW p \in Proc, WriteFile(p)
  PROVE  FollowInv'
<1> DEFINE t == pi[p]
           r == After(p, FALSE)
<1>1. /\ t \in Terminal /\ Placed(t) /\ t.io = "write" /\ t.at \in Operation /\ Alive(p)
      /\ pi' = [pi EXCEPT ![p] = r] /\ handoff' = Rewritten(p)
      /\ UNCHANGED history /\ spoiled' = spoiled
  BY DEF WriteFile, Alive, Placed, Terminal, FollowInv, HandoffInv, TypeOK
<1>2. /\ pi'[p] = r /\ r.io = "read"
      /\ \A q \in Proc : q # p => pi'[q] = pi[q]
  BY <1>1, AfterPlaced DEF FollowInv, HandoffInv, TypeOK
<1>3. ~spoiled => Contents = t.copy /\ Contents \in Entries /\ Contents' = Rewritten(p)
  <2>1. SUFFICES ASSUME ~spoiled
                 PROVE  Contents = t.copy /\ Contents \in Entries /\ Contents' = Rewritten(p)
    OBVIOUS
  <2>2. Filed /\ Filed'
    BY <1>1, <2>1, ContentsFiled, ContentsFiledNext DEF FollowInv
  <2>3. Written'
    BY <1>1, <1>2, <2>1 DEF Written, FollowInv, HandoffInv, Owned, Exclusive
  <2>4. QED
    BY <1>1, <2>2, <2>3 DEF Filed
<1>4. \A g : /\ g \in DOMAIN Rewritten(p) /\ Rewritten(p)[g] # p => g \in DOMAIN t.copy /\ t.copy[g] = Rewritten(p)[g]
             /\ g \in DOMAIN t.copy /\ g # Target(p) => g \in DOMAIN Rewritten(p) /\ Rewritten(p)[g] = t.copy[g]
             /\ t.at = "starting" => Target(p) \in DOMAIN Rewritten(p) /\ Rewritten(p)[Target(p)] = p
  BY DEF Rewritten
<1>5. Target(p) \in Hand(t) \cup {None}
  BY <1>1 DEF Target, Hand, Placed
<1>6. ASSUME ~spoiled, NEW q \in Proc, q # p, NEW f
      PROVE  /\ Names(f, q)' => Names(f, q)
             /\ shared = {} /\ Alive(q) /\ f \in Hand(pi[q]) /\ Names(f, q) => Names(f, q)'
  <2>1. Names(f, q)' => Names(f, q)
    BY <1>3, <1>4, <1>6 DEF Names
  <2>2. ASSUME shared = {}, Alive(q), f \in Hand(pi[q]), Names(f, q) PROVE Names(f, q)'
    <3>1. f \in File /\ f # None
      BY <1>3, <1>6, <2>2, EntriesMap, NoneAssumption DEF Names
    <3>2. f \notin Hand(t)
      BY <1>1, <1>6, <2>2 DEF FollowInv, Apart
    <3>3. QED
      BY <1>3, <1>4, <1>5, <1>6, <2>2, <3>1, <3>2 DEF Names
  <2>3. QED
    BY <2>1, <2>2
<1>7. /\ Hand(r) \subseteq Hand(t) /\ Poised(r) /\ (r.rc => t.at = "starting")
      /\ r.at # "checking" /\ r.at # "consuming"
  BY <1>1, AfterPoised
<1>8. \A q \in Proc : q # p /\ Alive(q) /\ Alive(p)' => Hand(pi'[p]) \cap Hand(pi[q]) \subseteq shared'
  BY <1>1, <1>2, <1>7 DEF FollowInv, Apart, history
<1>9. Poised(pi[p])' /\ Follows(p)'
  BY <1>1, <1>2, <1>7 DEF Poised, Follows
<1>10. ASSUME ~spoiled', shared' = {} PROVE Kept(p)' /\ Told(p)'
  <2>1. Kept(p) /\ Told(p) /\ Follows(p) /\ ~spoiled
    BY <1>1, <1>10 DEF FollowInv, history
  <2>2. Kept(p)'
    <3>1. t.at = "starting" => Target(p) = t.file /\ r.file = t.file
      BY <1>1 DEF Target, After, Done, Terminal
    <3>2. QED
      BY <1>2, <1>3, <1>4, <1>7, <2>1, <3>1 DEF Kept, Names
  <2>3. t.at = "checking" => ~ran[p]
    BY <1>1, <2>1 DEF Kept, Follows
  <2>4. Told(p)'
    BY <1>1, <1>2, <2>1, <2>3, AfterTold
  <2>5. QED
    BY <2>2, <2>4
<1>11. QED
  BY <1>1, <1>2, <1>6, <1>8, <1>9, <1>10, Alone DEF history

LEMMA FailFollows ==
  ASSUME FollowInv, HandoffInv', NEW p \in Proc, WriteFails(p)
  PROVE  FollowInv'
<1> DEFINE t == pi[p]
           r == IF t.at = "starting" THEN Done(p) ELSE After(p, FALSE)
<1>1. /\ t \in Terminal /\ t.at \in Operation /\ Alive(p)
      /\ pi' = [pi EXCEPT ![p] = r] /\ UNCHANGED history /\ spoiled'
  BY DEF WriteFails, Alive, Placed, Terminal, FollowInv, HandoffInv, TypeOK
<1>2. /\ pi'[p] = r
      /\ \A q \in Proc : q # p => pi'[q] = pi[q]
  BY <1>1 DEF FollowInv, HandoffInv, TypeOK
<1>3. Hand(r) \subseteq Hand(t) /\ (r.rc => r.at \in {"idle", "starting", "preparing"} /\ r.active = r.file)
  <2>1. CASE t.at = "starting"
    <3>1. /\ Done(p).at = "idle" /\ Done(p).rc = t.rc
          /\ Done(p).active = t.active /\ Done(p).file = t.file
      BY <1>1 DEF Done, Terminal
    <3>2. QED
      BY <2>1, <3>1 DEF Hand, FollowInv, Poised
  <2>2. CASE t.at # "starting"
    BY <1>1, <2>2, AfterPoised DEF Poised
  <2>3. QED
    BY <2>1, <2>2
<1>4. \A q \in Proc : q # p /\ Alive(q) /\ Alive(p)' => Hand(pi'[p]) \cap Hand(pi[q]) \subseteq shared'
  BY <1>1, <1>2, <1>3 DEF FollowInv, Apart, history
<1>5. Poised(pi[p])'
  BY <1>1, <1>2, <1>3 DEF Poised
<1>6. QED
  BY <1>1, <1>2, <1>4, <1>5, Alone DEF history

\* Nothing runs and nothing was asked.
LEMMA InitFollows == Init => FollowInv
<1>1. SUFFICES ASSUME Init PROVE FollowInv
  OBVIOUS
<1>2. HandoffInv /\ \A p \in Proc : pi[p] = Off /\ ~asked[p]
  BY <1>1, InitHandoff DEF Init
<1>3. Apart
  BY <1>2 DEF Apart, Alive, Off
<1>4. \A p \in Proc : Poised(pi[p]) /\ Follows(p) /\ Kept(p) /\ Told(p)
  BY <1>2 DEF Poised, Follows, Kept, Told, Off
<1>5. QED
  BY <1>2, <1>3, <1>4 DEF FollowInv

\* The inductive invariant of the replacements.
THEOREM FollowCorrect == Spec => []FollowInv
<1>1. ASSUME FollowInv, [Next]_vars, HandoffInv' PROVE FollowInv'
  <2>1. CASE UNCHANGED vars
    <3>1. UNCHANGED <<handoff, pi, asked, ran, shared, spoiled>>
      BY <2>1 DEF vars, history
    <3>2. Contents' = Contents
      BY <3>1 DEF Contents, Written
    <3>3. Apart' /\ \A p \in Proc : Poised(pi[p])'
      BY <1>1, <3>1 DEF FollowInv, Apart, Alive, Hand, Poised
    <3>4. ASSUME NEW p \in Proc
          PROVE  (Follows(p)' <=> Follows(p)) /\ (Kept(p)' <=> Kept(p)) /\ (Told(p)' <=> Told(p))
      <4>1. Follows(p)' <=> Follows(p)
        BY <3>1, <3>2 DEF Follows, Names
      <4>2. Kept(p)' <=> Kept(p)
        BY <3>1, <3>2 DEF Kept, Names
      <4>3. Told(p)' <=> Told(p)
        BY <3>1 DEF Told
      <4>4. QED
        BY <4>1, <4>2, <4>3
    <3>5. QED
      BY <1>1, <3>1, <3>3, <3>4 DEF FollowInv
  <2>2. ASSUME NEW p \in Proc, FileStep(p) PROVE FollowInv'
    BY <1>1, <2>2, ReadFollows, TruncateFollows, WriteFollows, FailFollows DEF FileStep
  <2>3. ASSUME NEW p \in Proc,
               \/ Rc(p) \/ RcMessage(p) \/ RcStop(p) \/ Quit(p) \/ SocketCloses(p)
               \/ Remote(p) \/ Cancelled(p) \/ Crash(p)
        PROVE  FollowInv'
    BY <1>1, <2>3, StartsFollow, StopsFollow, RemoteFollows, CrashFollows, ClosesFollow
  <2>4. ASSUME NEW p \in Proc, NEW f \in File, Launch(p, f) \/ Replace(p, f) \/ Replaced(p, f)
        PROVE  FollowInv'
    BY <1>1, <2>4, LaunchFollows, ReplacesFollow
  <2>5. QED
    BY <1>1, <2>1, <2>2, <2>3, <2>4 DEF Next
<1>2. QED
  BY InitFollows, HandoffCorrect, <1>1, PTL DEF Spec

-----------------------------------------------------------------------------

\* session_start turns RC on only after a runtime of the same process that had it
\* on, or in a session that another terminal has open.
THEOREM HookFollows == Spec => []HookOnlyFollows
<1>1. FollowInv => HookOnlyFollows
  BY DEF FollowInv, Follows, HookOnlyFollows
<1>2. QED
  BY <1>1, FollowCorrect, PTL

\* The entry of a session in which RC is on is in the file, as long as operations on
\* the file did not overlap and no session is open twice.
THEOREM EntriesReady == Spec => []EntryReady
<1>1. ASSUME FollowInv PROVE EntryReady
  <2>1. SUFFICES ASSUME NEW p \in Proc, pi[p].rc, ~spoiled, shared = {}, Written
                 PROVE  pi[p].file \in DOMAIN handoff /\ handoff[pi[p].file] = p
    BY DEF EntryReady
  <2>2. Contents = handoff /\ Kept(p)
    BY <1>1, <2>1 DEF Contents, FollowInv
  <2>3. QED
    BY <2>1, <2>2 DEF Kept, Names
<1>2. QED
  BY <1>1, FollowCorrect, PTL

\* RC at rest is on exactly where it was asked for, through every replacement,
\* cancellation, stop and crash, under the same two conditions.
THEOREM RcIsAsAsked == Spec => []RcAsAsked
<1>1. ASSUME FollowInv PROVE RcAsAsked
  <2>1. SUFFICES ASSUME NEW p \in Proc, AtRest(p), ~spoiled, shared = {}
                 PROVE  pi[p].rc = asked[p]
    BY DEF RcAsAsked
  <2>2. Told(p) /\ pi[p].rc \in BOOLEAN /\ asked[p] \in BOOLEAN
    BY <1>1, <2>1 DEF FollowInv, HandoffInv, TypeOK, Terminal
  <2>3. pi[p].rc <=> asked[p]
    BY <2>1, <2>2 DEF Told, AtRest
  <2>4. QED
    BY <2>2, <2>3
<1>2. QED
  BY <1>1, FollowCorrect, PTL
=============================================================================
