----------------------------- MODULE OneShot_proofs -----------------------------
(***************************************************************************)
(* MCOneShot for every sequence of batches, every number of runs that a    *)
(* host makes and of lines that a child prints: what a host is told of a   *)
(* run has one last word, which is true, and so is the result; what was    *)
(* staged for a run is gone when it is over.  RunInv is inductive for a    *)
(* child's run, ExecInv for the executions of all providers.               *)
(***************************************************************************)
EXTENDS MCOneShot, SequenceTheorems, FiniteSetTheorems, WellFoundedInduction, TLAPS

-----------------------------------------------------------------------------
(* OneShotRun: the invariant                                               *)

\* What can be read of a child, whoever it is, and all that a host can be told.
AnyLine == {"text", "failure", "max_turns", "auth_required", "unknown_session", "task", "task_done", "init"}
Words == AnyLine \cup Endings \cup {"auth_event", "result"}

ChildType(p) ==
    [up : {"no", "up", "gone"}, exit : {"none", "unspawned", "zero", "nonzero", "signal"},
     pipe : Seq(Lines(p)), said : Seq(Lines(p)), handled : Nat,
     timedOut : BOOLEAN, aborted : BOOLEAN, grace : SUBSET {"timeout", "abort"}, closed : BOOLEAN]

Codes == {"none", "binary_not_found", "protocol_degraded", "aborted", "timeout", "killed",
          "failure", "max_turns", "auth_required"}
EndingType ==
    [status : {"none", "completed", "failed", "aborted", "timeout"}, code : Codes,
     cleared : BOOLEAN, staged : SUBSET {"skills"}]

RunTyped ==
    /\ job \in [provider : Executors, resume : BOOLEAN, guarded : BOOLEAN, signal : BOOLEAN]
    /\ stage \in {"ready", "rejected", "spawning", "running", "settling", "done"}
    /\ child \in ChildType(job.provider)
    /\ child.handled <= Len(child.said)
    /\ told \in Seq(Words)
    /\ stage # "done" => told \in Seq(AnyLine)
    /\ ending \in EndingType

\* Nothing goes on but while the child runs: it is gone, was read and heard to its end.
RunRests ==
    /\ stage # "running" =>
           (child.up = "no" \/ child.closed) /\ child.grace = {} /\ child.pipe = << >> /\ child.handled = Len(child.said)
    /\ child.closed => child.up = "gone" /\ child.pipe = << >> /\ child.grace = {}
    /\ stage = "ready" => told = << >> /\ ending.staged = {} /\ ~ending.cleared

\* Who was stopped was told to stop, or had a limit.
StopsAreTrue == (child.aborted => job.signal) /\ (child.timedOut => job.guarded)

\* Of no provider but Cursor is anything held back.
HandledIsTold ==
    job.provider # "cursor" =>
        \A n \in 1 .. child.handled : \E m \in DOMAIN told : told[m] = child.said[n]

\* The result: there is none before the end, and then it is the one that was told.
RunEndsOnce ==
    /\ stage # "running" => ~OpenTask
    /\ stage # "done" => ending.status = "none"
    /\ stage = "done" =>
           /\ told # << >> /\ told[Len(told)] = Phase(ending.status) /\ ending.staged = {}
           /\ \A n \in DOMAIN told : told[n] \in Endings => n = Len(told)
           /\ ending.status = "aborted" => child.aborted
           /\ ending.status = "timeout" => child.timedOut
           /\ ending.status = "completed" =>
                  /\ ~child.aborted /\ ~child.timedOut /\ child.exit # "signal"
                  /\ "failure" \notin Said /\ "auth_required" \notin Said
    /\ ending.cleared => ~job.resume /\ (job.provider # "cursor" => \E n \in DOMAIN told : told[n] = "unknown_session")

RunInv == RunTyped /\ RunRests /\ StopsAreTrue /\ HandledIsTold /\ RunEndsOnce

-----------------------------------------------------------------------------
(* OneShotRun: the steps                                                   *)

\* The lines of a provider are lines.
LEMMA LinesAreLines == \A p : Lines(p) \in SUBSET AnyLine
<1>1. TAKE p
<1>2. p \in {"claude", "codex", "cursor", "opencode", "pi"} \/ p \notin {"claude", "codex", "cursor", "opencode", "pi"}
  OBVIOUS
<1>3. QED BY <1>2 DEF Lines, AnyLine

\* A run begins with nothing.
LEMMA RunStarts ==
    ASSUME RunInit
    PROVE  RunInv
<1> USE OneShotAssumption DEF RunInit, NoChild, NoEnding
<1>1. RunTyped
  <2>1. << >> \in Seq(Lines(job.provider)) /\ << >> \in Seq(Words) /\ << >> \in Seq(AnyLine) OBVIOUS
  <2>2. job \in [provider : Executors, resume : BOOLEAN, guarded : BOOLEAN, signal : BOOLEAN] OBVIOUS
  <2>3. child \in ChildType(job.provider) BY <2>1 DEF ChildType
  <2>4. child.handled <= Len(child.said) OBVIOUS
  <2>5. ending \in EndingType BY DEF EndingType, Codes
  <2>6. QED BY <2>1, <2>2, <2>3, <2>4, <2>5 DEF RunTyped
<1>2. RunRests /\ StopsAreTrue /\ HandledIsTold /\ RunEndsOnce
  BY DEF RunRests, StopsAreTrue, HandledIsTold, RunEndsOnce, OpenTask
<1>3. QED BY <1>1, <1>2 DEF RunInv

\* What is told more leaves what was told.
LEMMA ToldMore ==
    ASSUME NEW S, NEW q \in Seq(S), NEW r \in Seq(S)
    PROVE  /\ q \o r \in Seq(S) /\ Len(q \o r) = Len(q) + Len(r) /\ DOMAIN (q \o r) = 1 .. Len(q) + Len(r)
           /\ \A n \in DOMAIN q : n \in DOMAIN (q \o r) /\ (q \o r)[n] = q[n]
           /\ \A n \in DOMAIN r : Len(q) + n \in DOMAIN (q \o r) /\ (q \o r)[Len(q) + n] = r[n]
           /\ \A n \in DOMAIN (q \o r) :
                  \/ n \in DOMAIN q /\ (q \o r)[n] = q[n]
                  \/ n > Len(q) /\ n - Len(q) \in DOMAIN r /\ (q \o r)[n] = r[n - Len(q)]
  OBVIOUS

\* What a missing binary leaves told ends with the phase.
LEMMA ErrorLast ==
    ASSUME NEW own, own = << >> \/ own = <<"result">>
    PROVE  LET t == << >> \o own \o <<"error">> IN
           /\ t \in Seq({"result", "error"}) /\ Len(t) \in Nat \ {0} /\ t[Len(t)] = "error"
           /\ \A n \in DOMAIN t : t[n] \in {"result", "error"} /\ (t[n] = "error" => n = Len(t))
<1> DEFINE t == << >> \o own \o <<"error">>
<1>1. own \in Seq({"result"})
  <2>1. << >> \in Seq({"result"}) /\ <<"result">> \in Seq({"result"}) OBVIOUS
  <2>2. QED BY <2>1
<1>2. /\ t \in Seq({"result", "error"}) /\ Len(t) = Len(own) + 1 /\ Len(own) \in Nat /\ DOMAIN t = 1 .. Len(own) + 1
      /\ t[Len(own) + 1] = "error" /\ \A n \in 1 .. Len(own) : t[n] = own[n]
  BY <1>1
<1>3. \A n \in 1 .. Len(own) : own[n] = "result" BY <1>1
<1> HIDE DEF t
<1>4. /\ t \in Seq({"result", "error"}) /\ Len(t) \in Nat \ {0} /\ t[Len(t)] = "error" BY <1>2
<1>5. ASSUME NEW n \in DOMAIN t
      PROVE  t[n] \in {"result", "error"} /\ (t[n] = "error" => n = Len(t))
  <2>1. CASE n \in 1 .. Len(own) BY <1>2, <1>3, <2>1
  <2>2. CASE n = Len(own) + 1 BY <1>2, <2>2
  <2>3. QED BY <1>2, <2>1, <2>2
<1>6. QED BY <1>4, <1>5 DEF t

\* Before the child, and what ends there.
LEMMA RunPrepares ==
    ASSUME RunInv, BinaryMissing \/ PrepareThrows \/ Prepared \/ \E works \in BOOLEAN : Spawn(works)
    PROVE  RunInv'
<1> USE DEF RunInv
<1>1. CASE BinaryMissing
  <2> USE <1>1 DEF BinaryMissing
  <2>1. told = << >> /\ job' = job /\ child' = child /\ stage' = "done" /\ stage = "ready" BY DEF RunRests
  <2>2. /\ ending' = [ending EXCEPT !.status = "failed", !.code = "binary_not_found"]
        /\ ending'.status = "failed" /\ ending'.cleared = ending.cleared
        /\ ending'.staged = ending.staged
    BY DEF RunTyped, EndingType
  <2>3. /\ told' \in Seq({"result", "error"}) /\ Len(told') \in Nat \ {0} /\ told'[Len(told')] = "error"
        /\ \A n \in DOMAIN told' : told'[n] \in {"result", "error"} /\ (told'[n] = "error" => n = Len(told'))
    <3> DEFINE own == OwnResult
    <3>1. own = << >> \/ own = <<"result">> BY DEF OwnResult
    <3>2. told' = << >> \o own \o <<"error">> BY <2>1
    <3> HIDE <1>1 DEF own, BinaryMissing
    <3> DEFINE t == << >> \o own \o <<"error">>
    <3>3. /\ t \in Seq({"result", "error"}) /\ Len(t) \in Nat \ {0} /\ t[Len(t)] = "error"
          /\ \A n \in DOMAIN t : t[n] \in {"result", "error"} /\ (t[n] = "error" => n = Len(t))
      BY <3>1, ErrorLast
    <3>4. told' = t BY <3>2
    <3> HIDE DEF t
    <3>5. QED BY <3>3, <3>4
  <2>4. RunTyped'
    <3>1. ending' \in EndingType BY <2>2 DEF RunTyped, EndingType, Codes
    <3>2. told' \in Seq(Words) BY <2>3 DEF Words, Endings
    <3>3. QED BY <2>1, <3>1, <3>2 DEF RunTyped
  <2>5. RunRests' /\ StopsAreTrue' BY <2>1 DEF RunRests, StopsAreTrue
  <2>6. HandledIsTold' BY <2>1 DEF RunRests, HandledIsTold
  <2>7. ending.staged = {} /\ ~ending.cleared BY <2>1 DEF RunRests
  <2>8. RunEndsOnce' BY <2>1, <2>2, <2>3, <2>7 DEF RunEndsOnce, OpenTask, Endings, Phase
  <2>9. QED BY <2>4, <2>5, <2>6, <2>8
<1>2. CASE PrepareThrows \/ Prepared
  <2>1. /\ job' = job /\ child' = child /\ told' = told /\ stage = "ready" /\ stage' \in {"spawning", "rejected"}
        /\ \E kept \in SUBSET {"skills"} : ending' = [ending EXCEPT !.staged = kept]
    BY <1>2 DEF PrepareThrows, Prepared, Staging
  <2>2. ending'.status = ending.status /\ ending'.cleared = ending.cleared BY <2>1 DEF RunTyped, EndingType
  <2>3. ending' \in EndingType BY <2>1 DEF RunTyped, EndingType
  <2>4. RunTyped' BY <2>1, <2>3 DEF RunTyped
  <2>5. RunRests' /\ StopsAreTrue' /\ HandledIsTold' BY <2>1 DEF RunRests, StopsAreTrue, HandledIsTold
  <2>6. RunEndsOnce' BY <2>1, <2>2 DEF RunEndsOnce, OpenTask
  <2>7. QED BY <2>4, <2>5, <2>6
<1>3. CASE \E works \in BOOLEAN : Spawn(works)
  <2>1. PICK works \in BOOLEAN : Spawn(works) BY <1>3
  <2>2. job' = job /\ told' = told /\ ending' = ending /\ stage = "spawning" /\ stage' \in {"settling", "running"}
    BY <2>1 DEF Spawn
  <2>3. PICK up \in {"no", "up"}, exit \in {"none", "unspawned"}, stopped \in BOOLEAN :
            /\ child' = [up |-> up, exit |-> exit, pipe |-> << >>, said |-> << >>, handled |-> 0,
                         timedOut |-> FALSE, aborted |-> stopped, grace |-> {}, closed |-> FALSE]
            /\ up = "up" => stage' = "running"
            /\ stopped => job.signal
    <3>1. CASE job.signal BY <2>1, <3>1 DEF Spawn, NoChild
    <3>2. CASE ~job.signal /\ works BY <2>1, <3>2 DEF Spawn, NoChild
    <3>3. CASE ~job.signal /\ ~works BY <2>1, <3>3 DEF Spawn, NoChild
    <3>4. QED BY <3>1, <3>2, <3>3
  <2>5. << >> \in Seq(Lines(job.provider)) OBVIOUS
  <2>6. child' \in ChildType(job.provider) BY <2>3, <2>5 DEF ChildType
  <2>7. RunTyped' BY <2>2, <2>3, <2>6 DEF RunTyped
  <2>8. RunRests' /\ StopsAreTrue' /\ HandledIsTold' BY <2>3, <2>2 DEF RunRests, StopsAreTrue, HandledIsTold
  <2>9. RunEndsOnce' BY <2>2 DEF RunEndsOnce, OpenTask
  <2>10. QED BY <2>7, <2>8, <2>9
<1>4. QED BY <1>1, <1>2, <1>3

\* A line that is read goes from one queue to the other.
LEMMA LineRead ==
    ASSUME NEW S, NEW q \in Seq(S), NEW r \in Seq(S), q # << >>
    PROVE  /\ Tail(q) \in Seq(S) /\ Append(r, Head(q)) \in Seq(S) /\ Len(Append(r, Head(q))) = Len(r) + 1
           /\ \A n \in 1 .. Len(r) : Append(r, Head(q))[n] = r[n]
<1>1. Head(q) \in S /\ Tail(q) \in Seq(S) OBVIOUS
<1>2. QED BY <1>1

\* What the child does, and what stops it: nothing is told yet.
LEMMA ChildGoesOn ==
    ASSUME RunInv,
           \/ \E line \in Lines(job.provider) : Prints(line)
           \/ ReadsData \/ TimeoutFires \/ Closes
           \/ \E g \in {"timeout", "abort"} : GraceFires(g)
           \/ \E how \in {"zero", "nonzero", "signal"} : ChildExits(how)
    PROVE  RunInv'
<1> USE DEF RunInv
<1>1. job' = job /\ stage' = stage /\ told' = told /\ ending' = ending
  BY DEF Prints, ReadsData, TimeoutFires, Closes, GraceFires, ChildExits
<1>2. /\ child \in ChildType(job.provider) /\ child.handled <= Len(child.said)
      /\ child.closed => child.up = "gone" /\ child.pipe = << >> /\ child.grace = {}
  BY DEF RunTyped, RunRests
<1>3. /\ child' \in ChildType(job.provider) /\ child'.handled = child.handled /\ child'.handled <= Len(child'.said)
      /\ \A n \in 1 .. child.handled : child'.said[n] = child.said[n]
      /\ child'.closed => child'.up = "gone" /\ child'.pipe = << >> /\ child'.grace = {}
      /\ child'.aborted = child.aborted /\ (child'.timedOut => child.timedOut \/ job.guarded)
      /\ stage = "running"
  <2>1. CASE \E line \in Lines(job.provider) : Prints(line)
    <3>1. PICK line \in Lines(job.provider) : child.up = "up" /\ child' = [child EXCEPT !.pipe = Append(child.pipe, line)]
      BY <2>1 DEF Prints
    <3>2. Append(child.pipe, line) \in Seq(Lines(job.provider)) BY <1>2 DEF ChildType
    <3>3. QED BY <1>2, <3>1, <3>2 DEF ChildType, RunRests
  <2>2. CASE ReadsData
    <3>1. /\ child.pipe # << >>
          /\ child' = [child EXCEPT !.pipe = Tail(child.pipe), !.said = Append(child.said, Head(child.pipe))]
      BY <2>2 DEF ReadsData
    <3>2. child.pipe \in Seq(Lines(job.provider)) /\ child.said \in Seq(Lines(job.provider)) /\ child.handled \in Nat
      BY <1>2 DEF ChildType
    <3>3. /\ Tail(child.pipe) \in Seq(Lines(job.provider))
          /\ Append(child.said, Head(child.pipe)) \in Seq(Lines(job.provider))
          /\ Len(Append(child.said, Head(child.pipe))) = Len(child.said) + 1
          /\ \A n \in 1 .. Len(child.said) : Append(child.said, Head(child.pipe))[n] = child.said[n]
      <4> DEFINE L == Lines(job.provider)
                 q == child.pipe
                 r == child.said
      <4>1. q \in Seq(L) /\ r \in Seq(L) /\ q # << >> BY <3>1, <3>2
      <4> HIDE DEF L, q, r
      <4>2. /\ Tail(q) \in Seq(L) /\ Append(r, Head(q)) \in Seq(L) /\ Len(Append(r, Head(q))) = Len(r) + 1
            /\ \A n \in 1 .. Len(r) : Append(r, Head(q))[n] = r[n]
        BY ONLY <4>1, LineRead
      <4>3. QED BY <4>2 DEF L, q, r
    <3>4. \A n \in 1 .. child.handled : n \in 1 .. Len(child.said) BY <1>2, <3>2
    <3>5. /\ child'.pipe = Tail(child.pipe) /\ child'.said = Append(child.said, Head(child.pipe))
          /\ child'.handled = child.handled /\ child'.closed = child.closed /\ child'.grace = child.grace
          /\ child'.aborted = child.aborted /\ child'.timedOut = child.timedOut /\ child'.up = child.up
          /\ child' \in ChildType(job.provider)
      BY <1>2, <3>1, <3>3 DEF ChildType
    <3>6. child.handled <= Len(child.said) + 1 BY <1>2, <3>2
    <3>7. QED BY <1>2, <3>1, <3>3, <3>4, <3>5, <3>6 DEF RunRests
  <2>3. CASE TimeoutFires BY <1>2, <2>3 DEF TimeoutFires, ChildType, RunRests
  <2>4. CASE Closes BY <2>4, <1>2 DEF Closes, ChildType, RunRests
  <2>5. CASE \E g \in {"timeout", "abort"} : GraceFires(g)
    <3>1. PICK g \in {"timeout", "abort"} : g \in child.grace /\ child' = [Killed EXCEPT !.grace = Killed.grace \ {g}]
      BY <2>5 DEF GraceFires
    <3>2. /\ Killed \in ChildType(job.provider) /\ Killed.handled = child.handled /\ Killed.said = child.said
          /\ Killed.closed = child.closed /\ Killed.aborted = child.aborted /\ Killed.timedOut = child.timedOut
          /\ Killed.grace = child.grace
      BY <1>2 DEF Killed, ChildType
    <3>3. ~child.closed BY <1>2, <3>1
    <3>4. QED BY <1>2, <3>1, <3>2, <3>3 DEF ChildType, RunRests
  <2>6. CASE \E how \in {"zero", "nonzero", "signal"} : ChildExits(how)
    BY <1>2, <2>6 DEF ChildExits, ChildType, RunRests
  <2>7. QED BY <2>1, <2>2, <2>3, <2>4, <2>5, <2>6
<1>4. RunTyped' BY <1>1, <1>3 DEF RunTyped
<1>5. RunRests' /\ StopsAreTrue' /\ RunEndsOnce' BY <1>1, <1>3 DEF RunRests, StopsAreTrue, RunEndsOnce, OpenTask
<1>6. HandledIsTold' BY <1>1, <1>3 DEF HandledIsTold
<1>7. QED BY <1>4, <1>5, <1>6

\* What a callback tells are lines, of no provider but Cursor the one it is about.
LEMMA LinesAreTold ==
    ASSUME NEW before \in Seq(AnyLine), NEW line \in AnyLine
    PROVE  /\ Tells(before, line) \in Seq(AnyLine)
           /\ job.provider # "cursor" => Tells(before, line) = <<line>>
BY DEF Tells

\* Handlers are told of lines, in order.
LEMMA HandlersGoOn ==
    ASSUME RunInv, HandlesData
    PROVE  RunInv'
<1> USE DEF RunInv
<1> DEFINE next == child.handled + 1
           more == Tells(SubSeq(child.said, 1, child.handled), child.said[next])
<1>1. /\ child.handled < Len(child.said) /\ told' = told \o more /\ child' = [child EXCEPT !.handled = next]
      /\ job' = job /\ stage' = stage /\ ending' = ending /\ stage = "running"
  BY DEF HandlesData, RunRests
<1>2. child \in ChildType(job.provider) /\ told \in Seq(AnyLine) /\ Lines(job.provider) \in SUBSET AnyLine
  BY <1>1, LinesAreLines DEF RunTyped
<1>3. /\ child.handled \in Nat /\ child.said \in Seq(Lines(job.provider)) /\ next \in 1 .. Len(child.said)
      /\ child' \in ChildType(job.provider) /\ child'.said = child.said /\ child'.handled = next
      /\ child'.up = child.up /\ child'.pipe = child.pipe /\ child'.grace = child.grace /\ child'.closed = child.closed
      /\ child'.aborted = child.aborted /\ child'.timedOut = child.timedOut
  <2>1. child.handled \in Nat /\ child.said \in Seq(Lines(job.provider)) /\ Len(child.said) \in Nat
    BY <1>2 DEF ChildType
  <2>2. next \in Nat /\ next \in 1 .. Len(child.said) BY <1>1, <2>1
  <2> HIDE DEF next, more
  <2>3. child' = [child EXCEPT !.handled = next] BY <1>1
  <2>4. QED BY <1>2, <2>1, <2>2, <2>3 DEF ChildType
<1>4. child.said \in Seq(AnyLine) BY <1>2, <1>3
<1>5. SubSeq(child.said, 1, child.handled) \in Seq(AnyLine) /\ child.said[next] \in AnyLine BY <1>3, <1>4
<1>6. more \in Seq(AnyLine) /\ (job.provider # "cursor" => more = <<child.said[next]>>) BY <1>5, LinesAreTold
<1> HIDE DEF more, next
<1>7. told' \in Seq(AnyLine) /\ Len(told) \in Nat /\ \A n \in DOMAIN told : n \in DOMAIN told' /\ told'[n] = told[n]
  BY <1>1, <1>2, <1>6
<1>8. told' \in Seq(Words) BY <1>7 DEF Words
<1>9. RunTyped' BY <1>1, <1>3, <1>7, <1>8 DEF RunTyped
<1>10. RunRests' /\ StopsAreTrue' BY <1>1, <1>3 DEF RunRests, StopsAreTrue
<1>11. HandledIsTold'
  <2>1. SUFFICES ASSUME job.provider # "cursor", NEW n \in 1 .. next PROVE \E m \in DOMAIN told' : told'[m] = child.said[n]
    BY <1>1, <1>3 DEF HandledIsTold
  <2>2. CASE n = next
    <3>1. Len(told) + 1 \in DOMAIN told' /\ told'[Len(told) + 1] = child.said[next]
      BY <1>1, <1>2, <1>6, <1>7, <2>1
    <3>2. QED BY <2>2, <3>1
  <2>3. CASE n # next
    <3>1. n \in 1 .. child.handled BY <1>3, <2>3 DEF next
    <3>2. PICK m \in DOMAIN told : told[m] = child.said[n] BY <2>1, <3>1 DEF HandledIsTold
    <3>3. QED BY <1>7, <3>2
  <2>4. QED BY <2>2, <2>3
<1>12. RunEndsOnce' BY <1>7, <1>1 DEF RunEndsOnce
<1>13. QED BY <1>9, <1>10, <1>11, <1>12

\* The host's signal.
LEMMA HostStops ==
    ASSUME RunInv, HostAborts
    PROVE  RunInv'
<1> USE DEF RunInv
<1>1. /\ stage' = stage /\ told' = told /\ ending' = ending /\ job' = [job EXCEPT !.signal = TRUE]
      /\ child' = child \/ (stage = "running" /\ ~child.closed
                            /\ child' = [child EXCEPT !.aborted = TRUE, !.grace = child.grace \cup {"abort"}])
  BY DEF HostAborts
<1>2. /\ job' \in [provider : Executors, resume : BOOLEAN, guarded : BOOLEAN, signal : BOOLEAN]
      /\ job'.provider = job.provider /\ job'.resume = job.resume /\ job'.guarded = job.guarded /\ job'.signal
  BY <1>1 DEF RunTyped
<1>3. /\ child' \in ChildType(job.provider) /\ child'.said = child.said /\ child'.handled = child.handled
      /\ child'.timedOut = child.timedOut /\ child'.closed = child.closed /\ child'.exit = child.exit
      /\ child'.pipe = child.pipe /\ child'.up = child.up
      /\ stage # "running" \/ child.closed => child' = child
  <2>1. CASE child' = child BY <2>1 DEF RunTyped
  <2>2. CASE /\ stage = "running" /\ ~child.closed
             /\ child' = [child EXCEPT !.aborted = TRUE, !.grace = child.grace \cup {"abort"}]
    BY <2>2 DEF RunTyped, ChildType
  <2>3. QED BY <1>1, <2>1, <2>2
<1>4. RunTyped' BY <1>1, <1>2, <1>3 DEF RunTyped
<1>5. RunRests' /\ StopsAreTrue' /\ HandledIsTold' BY <1>1, <1>2, <1>3 DEF RunRests, StopsAreTrue, HandledIsTold
<1>6. RunEndsOnce' BY <1>1, <1>2, <1>3 DEF RunEndsOnce, OpenTask, Said
<1>7. QED BY <1>4, <1>5, <1>6

\* The child is gone and all its lines were handled: a task that is open is closed.
LEMMA ChildIsOver ==
    ASSUME RunInv, ChildResolved
    PROVE  RunInv'
<1> USE DEF RunInv
<1>1. /\ stage = "running" /\ child.closed /\ child.handled = Len(child.said) /\ stage' = "settling"
      /\ told' = IF OpenTask THEN Append(told, "task_done") ELSE told
      /\ job' = job /\ child' = child /\ ending' = ending
  BY DEF ChildResolved, Drained
<1>2. told \in Seq(AnyLine) /\ "task_done" \in AnyLine BY <1>1 DEF RunTyped, AnyLine
<1>3. told' \in Seq(AnyLine) /\ \A n \in DOMAIN told : n \in DOMAIN told' /\ told'[n] = told[n] BY <1>1, <1>2
<1>4. told' \in Seq(Words) BY <1>3 DEF Words
<1>5. ~OpenTask'
  <2>1. CASE OpenTask BY <1>1, <1>2, <2>1 DEF OpenTask
  <2>2. CASE ~OpenTask BY <1>1, <2>2 DEF OpenTask
  <2>3. QED BY <2>1, <2>2
<1>6. RunTyped' BY <1>1, <1>3, <1>4 DEF RunTyped
<1>7. RunRests' /\ StopsAreTrue' BY <1>1 DEF RunRests, StopsAreTrue
<1>8. HandledIsTold' BY <1>1, <1>3 DEF HandledIsTold
<1>9. RunEndsOnce' BY <1>1, <1>3, <1>5 DEF RunEndsOnce
<1>10. QED BY <1>6, <1>7, <1>8, <1>9

\* A session that is unknown is given up, and a second attempt made.
LEMMA RunTriesAgain ==
    ASSUME RunInv, Retry
    PROVE  RunInv'
<1> USE DEF RunInv
<1>1. /\ stage = "settling" /\ stage' = "spawning" /\ child' = NoChild /\ told' = told
      /\ job' = [job EXCEPT !.resume = FALSE] /\ ending' = [ending EXCEPT !.cleared = TRUE]
      /\ "unknown_session" \in Said
  BY DEF Retry, Retries
<1>2. /\ job' \in [provider : Executors, resume : BOOLEAN, guarded : BOOLEAN, signal : BOOLEAN]
      /\ job'.provider = job.provider /\ ~job'.resume
  BY <1>1 DEF RunTyped
<1>3. /\ child' = [up |-> "no", exit |-> "none", pipe |-> << >>, said |-> << >>, handled |-> 0,
                   timedOut |-> FALSE, aborted |-> FALSE, grace |-> {}, closed |-> FALSE]
  BY <1>1 DEF NoChild
<1>4. << >> \in Seq(Lines(job.provider)) /\ Len(<< >>) = 0 OBVIOUS
<1>5. child' \in ChildType(job.provider) /\ child'.handled = 0 /\ child'.said = << >> /\ child'.pipe = << >>
  BY <1>3, <1>4 DEF ChildType
<1>6. ending' \in EndingType /\ ending'.status = ending.status BY <1>1 DEF RunTyped, EndingType
<1>7. RunTyped' BY <1>4, <1>5, <1>1, <1>2, <1>6 DEF RunTyped
<1>8. RunRests' /\ StopsAreTrue' /\ HandledIsTold' BY <1>1, <1>3, <1>4 DEF RunRests, StopsAreTrue, HandledIsTold
<1>9. job.provider # "cursor" => \E n \in DOMAIN told : told[n] = "unknown_session"
  <2>1. child.said \in Seq(Lines(job.provider)) /\ child.handled = Len(child.said)
    BY <1>1 DEF RunTyped, ChildType, RunRests
  <2>2. PICK n \in 1 .. Len(child.said) : child.said[n] = "unknown_session" BY <1>1, <2>1 DEF Said, ToSet
  <2>3. QED BY <2>1, <2>2 DEF HandledIsTold
<1>10. RunEndsOnce' BY <1>1, <1>2, <1>6, <1>9 DEF RunEndsOnce, OpenTask
<1>11. QED BY <1>7, <1>8, <1>10

\* The code of what was said is none only if none of them was said.
LEMMA NoCodeNoneSaid ==
    ASSUME NEW codes, codes \in {<<"max_turns", "auth_required">>, <<"auth_required">>, <<"failure", "auth_required">>, <<"failure">>, << >>},
           NEW heard, heard = {n \in DOMAIN codes : codes[n] \in Said}
    PROVE  /\ heard # {} => codes[CHOOSE n \in heard : \A m \in heard : n <= m] \in {"max_turns", "auth_required", "failure"}
           /\ heard = {} => \A n \in DOMAIN codes : codes[n] \notin Said
<1>1. DOMAIN codes \in SUBSET {1, 2} /\ \A n \in DOMAIN codes : codes[n] \in {"max_turns", "auth_required", "failure"}
  OBVIOUS
<1>2. ASSUME heard # {} PROVE \E n \in heard : \A m \in heard : n <= m
  <2>1. heard \in SUBSET {1, 2} BY <1>1
  <2>2. CASE 1 \in heard BY <2>1, <2>2
  <2>3. CASE 1 \notin heard BY <1>2, <2>1, <2>3
  <2>4. QED BY <2>2, <2>3
<1>3. QED BY <1>1, <1>2

\* A run that completed was not stopped, said no failure and asked for no login.
LEMMA CompletedIsTrue ==
    ASSUME RunTyped
    PROVE  /\ Status \in {"completed", "failed", "aborted", "timeout"} /\ ErrorCode \in Codes
           /\ Status = "aborted" => child.aborted
           /\ Status = "timeout" => child.timedOut
           /\ Status = "completed" =>
                  /\ ~child.aborted /\ ~child.timedOut /\ child.exit # "signal"
                  /\ "failure" \notin Said /\ "auth_required" \notin Said
<1> DEFINE codes == CASE job.provider = "claude" -> <<"max_turns", "auth_required">>
                      [] job.provider \in {"codex", "cursor"} -> <<"auth_required">>
                      [] job.provider = "opencode" -> <<"failure", "auth_required">>
                      [] job.provider = "pi" -> <<"failure">>
                      [] OTHER -> << >>
           heard == {n \in DOMAIN codes : codes[n] \in Said}
<1>1. codes \in {<<"max_turns", "auth_required">>, <<"auth_required">>, <<"failure", "auth_required">>, <<"failure">>, << >>}
  OBVIOUS
<1>2. SaidCode = IF heard = {} THEN "none" ELSE codes[CHOOSE n \in heard : \A m \in heard : n <= m]
  BY DEF SaidCode
<1>3. "auth_required" \in Said => \E n \in DOMAIN codes : codes[n] = "auth_required"
  <2>1. child.said \in Seq(Lines(job.provider)) BY DEF RunTyped, ChildType
  <2>2. Said \in SUBSET Lines(job.provider) BY <2>1 DEF Said, ToSet
  <2>3. "auth_required" \in Lines(job.provider) => job.provider \in {"claude", "codex", "cursor", "opencode"}
    BY DEF Lines
  <2>4. job.provider \in {"claude", "codex", "cursor", "opencode"} => \E n \in {1, 2} : n \in DOMAIN codes /\ codes[n] = "auth_required"
    OBVIOUS
  <2>5. QED BY <2>2, <2>3, <2>4
<1> HIDE DEF codes
<1>4. /\ heard # {} => codes[CHOOSE n \in heard : \A m \in heard : n <= m] \in {"max_turns", "auth_required", "failure"}
      /\ heard = {} => \A n \in DOMAIN codes : codes[n] \notin Said
  BY <1>1, NoCodeNoneSaid
<1> HIDE DEF heard
<1>5. SaidCode \in {"none", "max_turns", "auth_required", "failure"} /\ (SaidCode = "none" => "auth_required" \notin Said)
  BY <1>2, <1>3, <1>4
<1>6. StopCode \in {"none", "aborted", "timeout", "killed"}
      /\ (StopCode = "none" => ~child.aborted /\ ~child.timedOut /\ child.exit # "signal")
  BY DEF StopCode
<1>7. ErrorCode \in Codes /\ (ErrorCode = "none" => StopCode = "none" /\ SaidCode = "none")
  BY <1>5, <1>6 DEF ErrorCode, Codes
<1>8. QED BY <1>5, <1>6, <1>7 DEF Status, HasMessage

\* What is told with a result: the phase, last, and no line.
LEMMA LastIsLast ==
    ASSUME RunTyped
    PROVE  /\ LastWords \in Seq(Words) /\ Len(LastWords) \in Nat \ {0} /\ LastWords[Len(LastWords)] = Phase(Status)
           /\ \A n \in DOMAIN LastWords : LastWords[n] \notin {"task", "task_done"}
           /\ \A n \in DOMAIN LastWords : LastWords[n] \in Endings => n = Len(LastWords)
<1> DEFINE phase == Phase(Status)
<1>1. phase \in Endings BY DEF Phase, Endings
<1> HIDE DEF phase
<1>2. PICK a \in Seq({"auth_event", "result"}), b \in Seq({"auth_event", "result"}) : LastWords = a \o b \o <<phase>>
  <2>1. << >> \in Seq({"auth_event", "result"}) /\ <<"auth_event">> \in Seq({"auth_event", "result"})
        /\ <<"result">> \in Seq({"auth_event", "result"})
    OBVIOUS
  <2>2. QED BY <2>1 DEF LastWords, OwnResult, phase
<1> DEFINE q == a \o b
<1>3. q \in Seq({"auth_event", "result"}) OBVIOUS
<1> HIDE DEF q
<1>4. /\ LastWords = q \o <<phase>> /\ Len(q) \in Nat /\ Len(LastWords) = Len(q) + 1 /\ DOMAIN LastWords = 1 .. Len(q) + 1
      /\ LastWords[Len(q) + 1] = phase /\ \A n \in 1 .. Len(q) : LastWords[n] \in {"auth_event", "result"}
  BY <1>2, <1>3 DEF q
<1>5. phase \in Words /\ phase \notin {"task", "task_done"} BY <1>1 DEF Words, Endings
<1>6. \A w \in {"auth_event", "result"} : w \in Words /\ w \notin Endings /\ w \notin {"task", "task_done"}
  BY DEF Words, Endings
<1>7. \A n \in DOMAIN LastWords : n \in 1 .. Len(q) \/ n = Len(q) + 1 BY <1>4
<1>8. LastWords \in Seq(Words) BY <1>3, <1>4, <1>5, <1>6
<1>9. Len(LastWords) \in Nat \ {0} /\ LastWords[Len(LastWords)] = phase BY <1>4
<1>10. ASSUME NEW n \in DOMAIN LastWords
       PROVE  /\ LastWords[n] \notin {"task", "task_done"}
              /\ LastWords[n] \in Endings => n = Len(LastWords)
  <2>1. CASE n \in 1 .. Len(q) BY <1>4, <1>6, <2>1
  <2>2. CASE n = Len(q) + 1 BY <1>4, <1>5, <2>2
  <2>3. QED BY <1>7, <2>1, <2>2
<1>11. QED BY <1>8, <1>9, <1>10 DEF phase

\* The result: what was said, and how it ended, is told in one word, the last.
LEMMA RunFinishes ==
    ASSUME RunInv, Finish
    PROVE  RunInv'
<1> USE DEF RunInv
<1>1. /\ stage = "settling" /\ stage' = "done" /\ told' = told \o LastWords /\ job' = job /\ child' = child
      /\ ending' = [ending EXCEPT !.status = Status, !.code = ErrorCode, !.staged = {}]
  BY DEF Finish
<1>2. /\ ending' \in EndingType /\ ending'.status = Status /\ ending'.staged = {} /\ ending'.cleared = ending.cleared
  BY <1>1, CompletedIsTrue DEF RunTyped, EndingType
<1>3. /\ LastWords \in Seq(Words) /\ Len(LastWords) \in Nat \ {0} /\ LastWords[Len(LastWords)] = Phase(Status)
      /\ \A n \in DOMAIN LastWords : LastWords[n] \notin {"task", "task_done"}
      /\ \A n \in DOMAIN LastWords : LastWords[n] \in Endings => n = Len(LastWords)
      /\ told \in Seq(Words) /\ told \in Seq(AnyLine)
  BY <1>1, LastIsLast DEF RunTyped
<1>4. /\ told' \in Seq(Words) /\ Len(told') = Len(told) + Len(LastWords) /\ Len(told) \in Nat
      /\ \A n \in DOMAIN told : n \in DOMAIN told' /\ told'[n] = told[n]
      /\ told'[Len(told')] = Phase(Status) /\ told' # << >>
  BY <1>1, <1>3
<1>5. \A n \in DOMAIN told' :
          \/ n \in DOMAIN told /\ told'[n] = told[n]
          \/ n > Len(told) /\ n - Len(told) \in DOMAIN LastWords /\ told'[n] = LastWords[n - Len(told)]
  BY <1>1, <1>3
<1>6. \A n \in DOMAIN told : told[n] \notin Endings BY <1>3 DEF AnyLine, Endings
<1>7. ~OpenTask'
  <2>1. SUFFICES ASSUME NEW n \in DOMAIN told', told'[n] = "task", \A m \in DOMAIN told' : m > n => told'[m] # "task_done"
                 PROVE FALSE
    BY DEF OpenTask
  <2>2. n \in DOMAIN told /\ told[n] = "task" BY <1>3, <1>5, <2>1
  <2>3. \A m \in DOMAIN told : m > n => told[m] # "task_done" BY <1>4, <2>1
  <2>4. QED BY <1>1, <2>2, <2>3 DEF RunEndsOnce, OpenTask
<1>8. \A n \in DOMAIN told' : told'[n] \in Endings => n = Len(told')
  <2>1. TAKE n \in DOMAIN told'
  <2>2. CASE n \in DOMAIN told /\ told'[n] = told[n] BY <1>6, <2>2
  <2>3. CASE n > Len(told) /\ n - Len(told) \in DOMAIN LastWords /\ told'[n] = LastWords[n - Len(told)]
    BY <1>3, <1>4, <2>3
  <2>4. QED BY <1>5, <2>2, <2>3
<1>9. RunTyped' BY <1>1, <1>2, <1>4 DEF RunTyped
<1>10. RunRests' /\ StopsAreTrue' BY <1>1 DEF RunRests, StopsAreTrue
<1>11. HandledIsTold' BY <1>1, <1>4 DEF HandledIsTold
<1>12. RunEndsOnce' BY <1>1, <1>4, <1>2, <1>7, <1>8, CompletedIsTrue DEF Said, RunEndsOnce
<1>13. QED BY <1>9, <1>10, <1>11, <1>12

LEMMA RunGoesOn ==
    ASSUME RunInv, RunNext
    PROVE  RunInv'
BY RunPrepares, ChildGoesOn, HandlersGoOn, HostStops, ChildIsOver, RunTriesAgain, RunFinishes DEF RunNext

LEMMA RunStays ==
    ASSUME RunInv, UNCHANGED runVars
    PROVE  RunInv'
BY DEF RunInv, RunTyped, RunRests, StopsAreTrue, HandledIsTold, RunEndsOnce, OpenTask, Said, runVars

\* The invariant gives what is said of a run.
LEMMA RunIsSound ==
    ASSUME RunInv
    PROVE  OneLastWord /\ StatusIsTrue
<1> USE DEF RunInv
<1>1. \A n \in DOMAIN told : told[n] \in Endings => stage = "done" /\ n = Len(told)
  BY DEF RunTyped, RunEndsOnce, AnyLine, Endings
<1>2. stage = "done" =>
          /\ told # << >> /\ Last(told) = Phase(ending.status)
          /\ child.up # "up" /\ child.grace = {} /\ ~OpenTask /\ ending.staged = {}
  BY DEF RunEndsOnce, RunRests, Last
<1>3. OneLastWord BY <1>1, <1>2 DEF OneLastWord
<1>4. StatusIsTrue BY DEF StatusIsTrue, RunEndsOnce, StopsAreTrue, Contains
<1>5. QED BY <1>3, <1>4

-----------------------------------------------------------------------------
(* Executions: the invariant                                               *)

Stops == {"timeout", "aborted"}
Statuses == {"none", "completed", "failed", "aborted", "timeout"}

\* A run of a batch.
OfARun ==
    [route : Providers, asked : SUBSET Optional, timed : BOOLEAN, at : Nat \ {0},
     held : SUBSET {"tier", "workspace", "skills", "mcp", "process", "timer", "listener", "remains"},
     stops : Seq(Stops), late : BOOLEAN, answered : {"no", "completed", "failed", "ok", "refused"},
     speaks : Nat, gives : Nat, cleared : BOOLEAN, ended : {"no", "returned", "thrown"}, status : Statuses]

\* What a route ever stages, and the step at which one names its session.
Holdable(p) ==
    CASE p = "claude" -> {"tier", "workspace", "skills", "mcp", "process"} \cup Guards
      [] p \in {"cursor", "opencode", "antigravity"} -> {"workspace", "skills", "process"} \cup Guards
      [] p = "http" -> Guards
      [] OTHER -> {"workspace", "process"} \cup Guards
Namer(p) ==
    CASE p \in {"codex skills", "antigravity", "pi"} -> 5
      [] p = "codex tier" -> 4
      [] OTHER -> 7
\* Routes of a child that says itself which session it speaks in.
Sayers == {"claude", "codex", "cursor", "opencode"}

\* What a run holds, its route has staged; where nothing fails late it has nothing at the end.
HoldsItsOwn(r) ==
    /\ r.ended = "no" => r.held \subseteq Holdable(r.route) /\ (r.at = 1 => r.held = {})
    /\ r.ended = "returned" => r.held \subseteq {"workspace"} \cup IF r.route = "http" THEN {"listener"} ELSE {}
    /\ r.ended = "thrown" => r.held = {}

\* How the work of a route is answered.
AnswersOf(p) == IF p = "http" THEN {"no", "ok", "refused"} ELSE {"no", "completed", "failed"}

\* Who began late was stopped; who was stopped says so.
StopsItHeard(r) ==
    /\ r.answered \in AnswersOf(r.route)
    /\ r.late => r.stops # << >>
    /\ r.ended # "returned" => r.status = "none"
    /\ r.status = "completed" => r.stops = << >>
    /\ r.status \in {"aborted", "timeout"} => \E n \in DOMAIN r.stops : r.stops[n] = r.status
    /\ r.ended = "returned" /\ r.stops # << >> /\ r.answered # "refused" =>
           /\ \E n \in DOMAIN r.stops : r.stops[n] = r.status
           /\ r.route \in {"codex skills", "antigravity"} => r.status = r.stops[1]

\* The session that a run speaks in, ss the sessions and sv the one the host goes on with: it
\* is of the run's folder, it is known when the work begins, and it is another one when that
\* of the host is given up.
SpeaksIn(r, ss, sv) ==
    /\ r.speaks \in 0 .. Len(ss)
    /\ r.speaks # 0 /\ r.route # "http" => ss[r.speaks] = Cwd(r)
    /\ r.route = "http" => ~r.cleared
    /\ r.ended = "no" =>
           /\ r.gives = 0
           /\ r.at > Namer(r.route) => r.speaks # 0
           /\ r.route \in Sayers /\ "process" \in r.held => r.speaks # 0
           /\ r.cleared => r.speaks # sv \/ (r.route \in Sayers /\ "process" \notin r.held)
    /\ r.gives \in {0, r.speaks} /\ (r.status = "completed" => r.gives # 0)
    /\ r.ended = "returned" /\ r.cleared => r.gives = 0 \/ r.gives # sv

RunIsRight(r, ss, sv) ==
    /\ r \in OfARun /\ r.at \in 1 .. Len(RouteOf(r.route).steps)
    /\ ~LateFailures => HoldsItsOwn(r)
    /\ StopsItHeard(r) /\ SpeaksIn(r, ss, sv)

ExecInv ==
    /\ runs \in Seq(OfARun) /\ \A i \in DOMAIN runs : RunIsRight(runs[i], sessions, saved)
    /\ aborted \in BOOLEAN /\ batch \in [cancels : BOOLEAN, settled : {"pending", "resolved", "rejected"}, made : Nat]
    /\ sessions \in Seq({"tree", "here"}) /\ saved \in 0 .. Len(sessions)
    /\ BatchIsWhole

-----------------------------------------------------------------------------
(* Executions: routes                                                      *)

\* The steps of each route.
LEMMA StepsAre ==
    /\ RouteOf("claude").steps = <<"binary", "tier", "workspace", "skills", "mcp", "child">>
    /\ RouteOf("codex").steps = <<"binary", "workspace", "flags", "instructions", "child">>
    /\ RouteOf("codex skills").steps = <<"binary", "workspace", "flags", "guards", "session", "turn">>
    /\ RouteOf("codex tier").steps = <<"guards", "binary", "workspace", "session", "turn">>
    /\ RouteOf("cursor").steps = <<"binary", "workspace", "instructions", "skills", "child">>
    /\ RouteOf("opencode").steps = <<"binary", "workspace", "instructions", "skills", "child">>
    /\ RouteOf("pi").steps = <<"binary", "workspace", "instructions", "skills", "file", "child">>
    /\ RouteOf("antigravity").steps = <<"binary", "workspace", "instructions", "skills", "process", "guards", "turn">>
    /\ RouteOf("http").steps = <<"guards", "request", "body">>
BY DEF RouteOf, Route, Claude, CodexExec, CodexAppServer, CodexTier, Cursor, OpenCode, Pi, Antigravity, HttpAgent

\* The steps of a route, whatever their order.
StepsOf(p) ==
    CASE p = "claude" -> {"binary", "tier", "workspace", "skills", "mcp", "child"}
      [] p = "codex" -> {"binary", "workspace", "flags", "instructions", "child"}
      [] p = "codex skills" -> {"binary", "workspace", "flags", "guards", "session", "turn"}
      [] p = "codex tier" -> {"guards", "binary", "workspace", "session", "turn"}
      [] p \in {"cursor", "opencode"} -> {"binary", "workspace", "instructions", "skills", "child"}
      [] p = "pi" -> {"binary", "workspace", "instructions", "skills", "file", "child"}
      [] p = "antigravity" -> {"binary", "workspace", "instructions", "skills", "process", "guards", "turn"}
      [] OTHER -> {"guards", "request", "body"}

\* What matters of the step at place n of a route p.
Placed(p, n, step) ==
    /\ step \in StepsOf(p)
    /\ step \in {"session", "process", "file"} <=> n = Namer(p)
    /\ step = "turn" => n > Namer(p)
    /\ step \in {"child", "turn"} => n > 4
    /\ p = "pi" /\ step = "child" => n > Namer(p)
    /\ step = "binary" /\ p # "codex tier" => n = 1

\* Which step is where.
LEMMA RoutesAre ==
    ASSUME NEW p \in Providers
    PROVE  LET steps == RouteOf(p).steps
           IN  /\ Len(steps) \in 1 .. 7 /\ DOMAIN steps = 1 .. Len(steps)
               /\ steps[Len(steps)] \in Works
               /\ \A n \in 1 .. Len(steps) : Placed(p, n, steps[n])
               /\ p = "http" => Len(steps) = 3 /\ steps[2] = "request" /\ steps[3] = "body"
<1> DEFINE steps == RouteOf(p).steps
<1>1. CASE p = "claude"
  <2>1. steps = <<"binary", "tier", "workspace", "skills", "mcp", "child">> BY <1>1, StepsAre
  <2>2. /\ Len(steps) = 6 /\ DOMAIN steps = 1 .. 6
        /\ steps[1] = "binary" /\ steps[2] = "tier" /\ steps[3] = "workspace" /\ steps[4] = "skills"
        /\ steps[5] = "mcp" /\ steps[6] = "child"
    BY <2>1
  <2> HIDE DEF steps
  <2>3. \A n \in 1 .. 6 : n \in {1, 2, 3, 4, 5, 6} OBVIOUS
  <2>4. StepsOf(p) = {"binary", "tier", "workspace", "skills", "mcp", "child"} /\ Namer(p) = 7
    BY <1>1 DEF StepsOf, Namer
  <2>5. ASSUME NEW n \in 1 .. 6 PROVE Placed(p, n, steps[n])
    <3>1. steps[n] \in StepsOf(p) /\ (steps[n] \in {"session", "process", "file"} <=> n = Namer(p))
      BY <2>2, <2>3, <2>4
    <3>2. (steps[n] = "turn" => n > Namer(p)) /\ (p = "pi" /\ steps[n] = "child" => n > Namer(p))
      BY <1>1, <2>2, <2>3, <2>4
    <3>3. steps[n] = "binary" /\ p # "codex tier" => n = 1 BY <1>1, <2>2, <2>3
    <3>4. steps[n] \in {"child", "turn"} => n > 4 BY <2>2, <2>3
    <3>5. QED BY <3>1, <3>2, <3>3, <3>4 DEF Placed
  <2>6. steps[6] \in Works /\ (p = "http" => Len(steps) = 3 /\ steps[2] = "request" /\ steps[3] = "body")
    BY <1>1, <2>2 DEF Works
  <2>7. /\ Len(steps) \in 1 .. 7 /\ DOMAIN steps = 1 .. Len(steps) /\ steps[Len(steps)] \in Works
        /\ \A n \in 1 .. Len(steps) : Placed(p, n, steps[n])
    BY <2>2, <2>5, <2>6
  <2>8. QED BY <2>6, <2>7 DEF steps
<1>2. CASE p = "codex"
  <2>1. steps = <<"binary", "workspace", "flags", "instructions", "child">> BY <1>2, StepsAre
  <2>2. /\ Len(steps) = 5 /\ DOMAIN steps = 1 .. 5
        /\ steps[1] = "binary" /\ steps[2] = "workspace" /\ steps[3] = "flags" /\ steps[4] = "instructions"
        /\ steps[5] = "child"
    BY <2>1
  <2> HIDE DEF steps
  <2>3. \A n \in 1 .. 5 : n \in {1, 2, 3, 4, 5} OBVIOUS
  <2>4. StepsOf(p) = {"binary", "workspace", "flags", "instructions", "child"} /\ Namer(p) = 7
    BY <1>2 DEF StepsOf, Namer
  <2>5. ASSUME NEW n \in 1 .. 5 PROVE Placed(p, n, steps[n])
    <3>1. steps[n] \in StepsOf(p) /\ (steps[n] \in {"session", "process", "file"} <=> n = Namer(p))
      BY <2>2, <2>3, <2>4
    <3>2. (steps[n] = "turn" => n > Namer(p)) /\ (p = "pi" /\ steps[n] = "child" => n > Namer(p))
      BY <1>2, <2>2, <2>3, <2>4
    <3>3. steps[n] = "binary" /\ p # "codex tier" => n = 1 BY <1>2, <2>2, <2>3
    <3>4. steps[n] \in {"child", "turn"} => n > 4 BY <2>2, <2>3
    <3>5. QED BY <3>1, <3>2, <3>3, <3>4 DEF Placed
  <2>6. steps[5] \in Works /\ (p = "http" => Len(steps) = 3 /\ steps[2] = "request" /\ steps[3] = "body")
    BY <1>2, <2>2 DEF Works
  <2>7. /\ Len(steps) \in 1 .. 7 /\ DOMAIN steps = 1 .. Len(steps) /\ steps[Len(steps)] \in Works
        /\ \A n \in 1 .. Len(steps) : Placed(p, n, steps[n])
    BY <2>2, <2>5, <2>6
  <2>8. QED BY <2>6, <2>7 DEF steps
<1>3. CASE p = "codex skills"
  <2>1. steps = <<"binary", "workspace", "flags", "guards", "session", "turn">> BY <1>3, StepsAre
  <2>2. /\ Len(steps) = 6 /\ DOMAIN steps = 1 .. 6
        /\ steps[1] = "binary" /\ steps[2] = "workspace" /\ steps[3] = "flags" /\ steps[4] = "guards"
        /\ steps[5] = "session" /\ steps[6] = "turn"
    BY <2>1
  <2> HIDE DEF steps
  <2>3. \A n \in 1 .. 6 : n \in {1, 2, 3, 4, 5, 6} OBVIOUS
  <2>4. StepsOf(p) = {"binary", "workspace", "flags", "guards", "session", "turn"} /\ Namer(p) = 5
    BY <1>3 DEF StepsOf, Namer
  <2>5. ASSUME NEW n \in 1 .. 6 PROVE Placed(p, n, steps[n])
    <3>1. steps[n] \in StepsOf(p) /\ (steps[n] \in {"session", "process", "file"} <=> n = Namer(p))
      BY <2>2, <2>3, <2>4
    <3>2. (steps[n] = "turn" => n > Namer(p)) /\ (p = "pi" /\ steps[n] = "child" => n > Namer(p))
      <4>1. steps[n] = "turn" => n = 6 BY <2>2, <2>3
      <4>2. p # "pi" BY <1>3
      <4>3. 6 > Namer(p) /\ 6 > 4 BY <2>4
      <4>4. QED BY <4>1, <4>2, <4>3
    <3>3. steps[n] = "binary" /\ p # "codex tier" => n = 1 BY <1>3, <2>2, <2>3
    <3>4. steps[n] \in {"child", "turn"} => n > 4 BY <2>2, <2>3
    <3>5. QED BY <3>1, <3>2, <3>3, <3>4 DEF Placed
  <2>6. steps[6] \in Works /\ (p = "http" => Len(steps) = 3 /\ steps[2] = "request" /\ steps[3] = "body")
    BY <1>3, <2>2 DEF Works
  <2>7. /\ Len(steps) \in 1 .. 7 /\ DOMAIN steps = 1 .. Len(steps) /\ steps[Len(steps)] \in Works
        /\ \A n \in 1 .. Len(steps) : Placed(p, n, steps[n])
    BY <2>2, <2>5, <2>6
  <2>8. QED BY <2>6, <2>7 DEF steps
<1>4. CASE p = "codex tier"
  <2>1. steps = <<"guards", "binary", "workspace", "session", "turn">> BY <1>4, StepsAre
  <2>2. /\ Len(steps) = 5 /\ DOMAIN steps = 1 .. 5
        /\ steps[1] = "guards" /\ steps[2] = "binary" /\ steps[3] = "workspace" /\ steps[4] = "session"
        /\ steps[5] = "turn"
    BY <2>1
  <2> HIDE DEF steps
  <2>3. \A n \in 1 .. 5 : n \in {1, 2, 3, 4, 5} OBVIOUS
  <2>4. StepsOf(p) = {"guards", "binary", "workspace", "session", "turn"} /\ Namer(p) = 4
    BY <1>4 DEF StepsOf, Namer
  <2>5. ASSUME NEW n \in 1 .. 5 PROVE Placed(p, n, steps[n])
    <3>1. steps[n] \in StepsOf(p) /\ (steps[n] \in {"session", "process", "file"} <=> n = Namer(p))
      BY <2>2, <2>3, <2>4
    <3>2. (steps[n] = "turn" => n > Namer(p)) /\ (p = "pi" /\ steps[n] = "child" => n > Namer(p))
      <4>1. steps[n] = "turn" => n = 5 BY <2>2, <2>3
      <4>2. p # "pi" BY <1>4
      <4>3. 5 > Namer(p) /\ 5 > 4 BY <2>4
      <4>4. QED BY <4>1, <4>2, <4>3
    <3>3. steps[n] = "binary" /\ p # "codex tier" => n = 1 BY <1>4, <2>2, <2>3
    <3>4. steps[n] \in {"child", "turn"} => n > 4 BY <2>2, <2>3
    <3>5. QED BY <3>1, <3>2, <3>3, <3>4 DEF Placed
  <2>6. steps[5] \in Works /\ (p = "http" => Len(steps) = 3 /\ steps[2] = "request" /\ steps[3] = "body")
    BY <1>4, <2>2 DEF Works
  <2>7. /\ Len(steps) \in 1 .. 7 /\ DOMAIN steps = 1 .. Len(steps) /\ steps[Len(steps)] \in Works
        /\ \A n \in 1 .. Len(steps) : Placed(p, n, steps[n])
    BY <2>2, <2>5, <2>6
  <2>8. QED BY <2>6, <2>7 DEF steps
<1>5. CASE p = "cursor"
  <2>1. steps = <<"binary", "workspace", "instructions", "skills", "child">> BY <1>5, StepsAre
  <2>2. /\ Len(steps) = 5 /\ DOMAIN steps = 1 .. 5
        /\ steps[1] = "binary" /\ steps[2] = "workspace" /\ steps[3] = "instructions" /\ steps[4] = "skills"
        /\ steps[5] = "child"
    BY <2>1
  <2> HIDE DEF steps
  <2>3. \A n \in 1 .. 5 : n \in {1, 2, 3, 4, 5} OBVIOUS
  <2>4. StepsOf(p) = {"binary", "workspace", "instructions", "skills", "child"} /\ Namer(p) = 7
    BY <1>5 DEF StepsOf, Namer
  <2>5. ASSUME NEW n \in 1 .. 5 PROVE Placed(p, n, steps[n])
    <3>1. steps[n] \in StepsOf(p) /\ (steps[n] \in {"session", "process", "file"} <=> n = Namer(p))
      BY <2>2, <2>3, <2>4
    <3>2. (steps[n] = "turn" => n > Namer(p)) /\ (p = "pi" /\ steps[n] = "child" => n > Namer(p))
      BY <1>5, <2>2, <2>3, <2>4
    <3>3. steps[n] = "binary" /\ p # "codex tier" => n = 1 BY <1>5, <2>2, <2>3
    <3>4. steps[n] \in {"child", "turn"} => n > 4 BY <2>2, <2>3
    <3>5. QED BY <3>1, <3>2, <3>3, <3>4 DEF Placed
  <2>6. steps[5] \in Works /\ (p = "http" => Len(steps) = 3 /\ steps[2] = "request" /\ steps[3] = "body")
    BY <1>5, <2>2 DEF Works
  <2>7. /\ Len(steps) \in 1 .. 7 /\ DOMAIN steps = 1 .. Len(steps) /\ steps[Len(steps)] \in Works
        /\ \A n \in 1 .. Len(steps) : Placed(p, n, steps[n])
    BY <2>2, <2>5, <2>6
  <2>8. QED BY <2>6, <2>7 DEF steps
<1>6. CASE p = "opencode"
  <2>1. steps = <<"binary", "workspace", "instructions", "skills", "child">> BY <1>6, StepsAre
  <2>2. /\ Len(steps) = 5 /\ DOMAIN steps = 1 .. 5
        /\ steps[1] = "binary" /\ steps[2] = "workspace" /\ steps[3] = "instructions" /\ steps[4] = "skills"
        /\ steps[5] = "child"
    BY <2>1
  <2> HIDE DEF steps
  <2>3. \A n \in 1 .. 5 : n \in {1, 2, 3, 4, 5} OBVIOUS
  <2>4. StepsOf(p) = {"binary", "workspace", "instructions", "skills", "child"} /\ Namer(p) = 7
    BY <1>6 DEF StepsOf, Namer
  <2>5. ASSUME NEW n \in 1 .. 5 PROVE Placed(p, n, steps[n])
    <3>1. steps[n] \in StepsOf(p) /\ (steps[n] \in {"session", "process", "file"} <=> n = Namer(p))
      BY <2>2, <2>3, <2>4
    <3>2. (steps[n] = "turn" => n > Namer(p)) /\ (p = "pi" /\ steps[n] = "child" => n > Namer(p))
      BY <1>6, <2>2, <2>3, <2>4
    <3>3. steps[n] = "binary" /\ p # "codex tier" => n = 1 BY <1>6, <2>2, <2>3
    <3>4. steps[n] \in {"child", "turn"} => n > 4 BY <2>2, <2>3
    <3>5. QED BY <3>1, <3>2, <3>3, <3>4 DEF Placed
  <2>6. steps[5] \in Works /\ (p = "http" => Len(steps) = 3 /\ steps[2] = "request" /\ steps[3] = "body")
    BY <1>6, <2>2 DEF Works
  <2>7. /\ Len(steps) \in 1 .. 7 /\ DOMAIN steps = 1 .. Len(steps) /\ steps[Len(steps)] \in Works
        /\ \A n \in 1 .. Len(steps) : Placed(p, n, steps[n])
    BY <2>2, <2>5, <2>6
  <2>8. QED BY <2>6, <2>7 DEF steps
<1>7. CASE p = "pi"
  <2>1. steps = <<"binary", "workspace", "instructions", "skills", "file", "child">> BY <1>7, StepsAre
  <2>2. /\ Len(steps) = 6 /\ DOMAIN steps = 1 .. 6
        /\ steps[1] = "binary" /\ steps[2] = "workspace" /\ steps[3] = "instructions" /\ steps[4] = "skills"
        /\ steps[5] = "file" /\ steps[6] = "child"
    BY <2>1
  <2> HIDE DEF steps
  <2>3. \A n \in 1 .. 6 : n \in {1, 2, 3, 4, 5, 6} OBVIOUS
  <2>4. StepsOf(p) = {"binary", "workspace", "instructions", "skills", "file", "child"} /\ Namer(p) = 5
    BY <1>7 DEF StepsOf, Namer
  <2>5. ASSUME NEW n \in 1 .. 6 PROVE Placed(p, n, steps[n])
    <3>1. steps[n] \in StepsOf(p) /\ (steps[n] \in {"session", "process", "file"} <=> n = Namer(p))
      BY <2>2, <2>3, <2>4
    <3>2. (steps[n] = "turn" => n > Namer(p)) /\ (p = "pi" /\ steps[n] = "child" => n > Namer(p))
      BY <1>7, <2>2, <2>3, <2>4
    <3>3. steps[n] = "binary" /\ p # "codex tier" => n = 1 BY <1>7, <2>2, <2>3
    <3>4. steps[n] \in {"child", "turn"} => n > 4 BY <2>2, <2>3
    <3>5. QED BY <3>1, <3>2, <3>3, <3>4 DEF Placed
  <2>6. steps[6] \in Works /\ (p = "http" => Len(steps) = 3 /\ steps[2] = "request" /\ steps[3] = "body")
    BY <1>7, <2>2 DEF Works
  <2>7. /\ Len(steps) \in 1 .. 7 /\ DOMAIN steps = 1 .. Len(steps) /\ steps[Len(steps)] \in Works
        /\ \A n \in 1 .. Len(steps) : Placed(p, n, steps[n])
    BY <2>2, <2>5, <2>6
  <2>8. QED BY <2>6, <2>7 DEF steps
<1>8. CASE p = "antigravity"
  <2>1. steps = <<"binary", "workspace", "instructions", "skills", "process", "guards", "turn">>
    BY <1>8, StepsAre
  <2>2. /\ Len(steps) = 7 /\ DOMAIN steps = 1 .. 7
        /\ steps[1] = "binary" /\ steps[2] = "workspace" /\ steps[3] = "instructions" /\ steps[4] = "skills"
        /\ steps[5] = "process" /\ steps[6] = "guards" /\ steps[7] = "turn"
    BY <2>1
  <2> HIDE DEF steps
  <2>3. \A n \in 1 .. 7 : n \in {1, 2, 3, 4, 5, 6, 7} OBVIOUS
  <2>4. StepsOf(p) = {"binary", "workspace", "instructions", "skills", "process", "guards", "turn"} /\ Namer(p) = 5
    BY <1>8 DEF StepsOf, Namer
  <2>5. ASSUME NEW n \in 1 .. 7 PROVE Placed(p, n, steps[n])
    <3>1. steps[n] \in StepsOf(p) /\ (steps[n] \in {"session", "process", "file"} <=> n = Namer(p))
      BY <2>2, <2>3, <2>4
    <3>2. (steps[n] = "turn" => n > Namer(p)) /\ (p = "pi" /\ steps[n] = "child" => n > Namer(p))
      BY <1>8, <2>2, <2>3, <2>4
    <3>3. steps[n] = "binary" /\ p # "codex tier" => n = 1 BY <1>8, <2>2, <2>3
    <3>4. steps[n] \in {"child", "turn"} => n > 4 BY <2>2, <2>3
    <3>5. QED BY <3>1, <3>2, <3>3, <3>4 DEF Placed
  <2>6. steps[7] \in Works /\ (p = "http" => Len(steps) = 3 /\ steps[2] = "request" /\ steps[3] = "body")
    BY <1>8, <2>2 DEF Works
  <2>7. /\ Len(steps) \in 1 .. 7 /\ DOMAIN steps = 1 .. Len(steps) /\ steps[Len(steps)] \in Works
        /\ \A n \in 1 .. Len(steps) : Placed(p, n, steps[n])
    BY <2>2, <2>5, <2>6
  <2>8. QED BY <2>6, <2>7 DEF steps
<1>9. CASE p = "http"
  <2>1. steps = <<"guards", "request", "body">> BY <1>9, StepsAre
  <2>2. /\ Len(steps) = 3 /\ DOMAIN steps = 1 .. 3
        /\ steps[1] = "guards" /\ steps[2] = "request" /\ steps[3] = "body"
    BY <2>1
  <2> HIDE DEF steps
  <2>3. \A n \in 1 .. 3 : n \in {1, 2, 3} OBVIOUS
  <2>4. StepsOf(p) = {"guards", "request", "body"} /\ Namer(p) = 7 BY <1>9 DEF StepsOf, Namer
  <2>5. ASSUME NEW n \in 1 .. 3 PROVE Placed(p, n, steps[n])
    <3>1. steps[n] \in StepsOf(p) /\ (steps[n] \in {"session", "process", "file"} <=> n = Namer(p))
      BY <2>2, <2>3, <2>4
    <3>2. (steps[n] = "turn" => n > Namer(p)) /\ (p = "pi" /\ steps[n] = "child" => n > Namer(p))
      BY <1>9, <2>2, <2>3, <2>4
    <3>3. steps[n] = "binary" /\ p # "codex tier" => n = 1 BY <1>9, <2>2, <2>3
    <3>4. steps[n] \in {"child", "turn"} => n > 4 BY <2>2, <2>3
    <3>5. QED BY <3>1, <3>2, <3>3, <3>4 DEF Placed
  <2>6. steps[3] \in Works /\ (p = "http" => Len(steps) = 3 /\ steps[2] = "request" /\ steps[3] = "body")
    BY <1>9, <2>2 DEF Works
  <2>7. /\ Len(steps) \in 1 .. 7 /\ DOMAIN steps = 1 .. Len(steps) /\ steps[Len(steps)] \in Works
        /\ \A n \in 1 .. Len(steps) : Placed(p, n, steps[n])
    BY <2>2, <2>5, <2>6
  <2>8. QED BY <2>6, <2>7 DEF steps
<1>10. QED BY <1>1, <1>2, <1>3, <1>4, <1>5, <1>6, <1>7, <1>8, <1>9 DEF Providers

\* The step that a run is at.
LEMMA StepHere ==
    ASSUME NEW run \in OfARun, run.at \in 1 .. Len(RouteOf(run.route).steps)
    PROVE  /\ run.route \in Providers /\ Here(run) \in StepsOf(run.route) /\ Placed(run.route, run.at, Here(run))
           /\ Len(RouteOf(run.route).steps) \in 1 .. 7
           /\ Here(run) \notin Works => run.at < Len(RouteOf(run.route).steps)
<1>1. run.route \in Providers BY DEF OfARun
<1>2. run.at \in Nat /\ Len(RouteOf(run.route).steps) \in 1 .. 7 BY <1>1, RoutesAre DEF OfARun
<1>3. Placed(run.route, run.at, Here(run)) /\ (Here(run) \notin Works => run.at # Len(RouteOf(run.route).steps))
  BY <1>1, RoutesAre DEF Here
<1>4. Here(run) \in StepsOf(run.route) BY <1>3 DEF Placed
<1>5. ASSUME Here(run) \notin Works PROVE run.at < Len(RouteOf(run.route).steps) BY <1>2, <1>3, <1>5
<1>6. QED BY <1>1, <1>2, <1>3, <1>4, <1>5

\* How a failure of a step is taken that is told as a result: at the first step, or where what
\* the route holds is removed whatever the step.
LEMMA ResultsOfSteps ==
    ASSUME NEW run \in OfARun, run.at \in 1 .. Len(RouteOf(run.route).steps), "result" \in Fates(run),
           Here(run) \notin Works
    PROVE  run.route \in {"codex skills", "codex tier"} \/ run.at = 1
<1>1. ASSUME run.route \notin {"codex skills", "codex tier"} PROVE run.at = 1
  <2>1. run.route \in Providers /\ Placed(run.route, run.at, Here(run)) /\ Here(run) \in StepsOf(run.route)
    BY StepHere
  <2>2. Here(run) # "session" BY <1>1, <2>1 DEF StepsOf, Providers
  <2>3. "result" \notin TierFates BY DEF TierFates
  <2>4. Here(run) \in RouteOf(run.route).result BY <2>2, <2>3 DEF Fates
  <2>5. RouteOf(run.route).result \in {{"binary"}, {"request", "body"}}
    BY <1>1, <2>1 DEF RouteOf, Route, Providers, Claude, CodexExec, Cursor, OpenCode, Pi, Antigravity, HttpAgent
  <2>6. Here(run) = "binary" BY <2>4, <2>5 DEF Works
  <2>7. QED BY <1>1, <2>1, <2>6 DEF Placed
<1>2. QED BY <1>1

\* What a step stages is what its route may hold.
LEMMA StagesAreHoldable ==
    ASSUME NEW run \in OfARun, run.at \in 1 .. Len(RouteOf(run.route).steps)
    PROVE  /\ Stages(run) \subseteq Holdable(run.route)
           /\ Stages(run) \subseteq {"tier", "workspace", "skills", "mcp", "process", "timer", "listener", "remains"}
           /\ run.route \in Sayers /\ Here(run) # "child" => "process" \notin Stages(run)
           /\ Here(run) = "guards" => "listener" \in Stages(run)
           /\ Here(run) \notin {"guards", "child"} => "listener" \notin Stages(run)
<1> DEFINE step == Here(run)
           p == run.route
<1>1. p \in Providers /\ step \in StepsOf(p) BY StepHere
<1>2. Stages(run) = CASE step \in {"tier", "workspace", "mcp"} -> {step}
                      [] step = "skills" -> IF p = "pi" THEN {} ELSE {"skills"}
                      [] step \in {"process", "session"} -> {"process"}
                      [] step = "guards" -> Guards
                      [] step = "child" -> Guards \cup {"process"}
                      [] OTHER -> {}
  BY DEF Stages
<1>3. CASE p = "claude" BY <1>1, <1>2, <1>3 DEF StepsOf, Holdable, Guards, Sayers
<1>4. CASE p = "codex" BY <1>1, <1>2, <1>4 DEF StepsOf, Holdable, Guards, Sayers
<1>5. CASE p = "codex skills"
  <2>1. Holdable(p) = {"workspace", "process", "timer", "listener"} BY <1>5 DEF Holdable, Guards
  <2>2. step \in {"binary", "workspace", "flags", "guards", "session", "turn"} BY <1>1, <1>5 DEF StepsOf
  <2>3. p \notin Sayers BY <1>5 DEF Sayers
  <2>4. Stages(run) = CASE step = "workspace" -> {"workspace"}
                        [] step = "session" -> {"process"}
                        [] step = "guards" -> {"timer", "listener"}
                        [] OTHER -> {}
    BY <1>2, <2>2 DEF Guards
  <2> HIDE DEF step, p
  <2>5. QED BY <2>1, <2>2, <2>3, <2>4 DEF step, p
<1>6. CASE p = "codex tier"
  <2>1. Holdable(p) = {"workspace", "process", "timer", "listener"} BY <1>6 DEF Holdable, Guards
  <2>2. step \in {"binary", "workspace", "flags", "guards", "session", "turn"} BY <1>1, <1>6 DEF StepsOf
  <2>3. p \notin Sayers BY <1>6 DEF Sayers
  <2>4. Stages(run) = CASE step = "workspace" -> {"workspace"}
                        [] step = "session" -> {"process"}
                        [] step = "guards" -> {"timer", "listener"}
                        [] OTHER -> {}
    BY <1>2, <2>2 DEF Guards
  <2> HIDE DEF step, p
  <2>5. QED BY <2>1, <2>2, <2>3, <2>4 DEF step, p
<1>7. CASE p = "cursor" BY <1>1, <1>2, <1>7 DEF StepsOf, Holdable, Guards, Sayers
<1>8. CASE p = "opencode" BY <1>1, <1>2, <1>8 DEF StepsOf, Holdable, Guards, Sayers
<1>9. CASE p = "pi" BY <1>1, <1>2, <1>9 DEF StepsOf, Holdable, Guards, Sayers
<1>10. CASE p = "antigravity" BY <1>1, <1>2, <1>10 DEF StepsOf, Holdable, Guards, Sayers
<1>11. CASE p = "http" BY <1>1, <1>2, <1>11 DEF StepsOf, Holdable, Guards, Sayers
<1>12. QED BY <1>1, <1>3, <1>4, <1>5, <1>6, <1>7, <1>8, <1>9, <1>10, <1>11 DEF Providers

\* A set of numbers that is not empty has a least one: its initial segments are well-founded.
LEMMA LeastOf ==
    ASSUME NEW T, T \subseteq Nat, T # {}
    PROVE  \E x \in T : \A y \in T : x <= y
<1> DEFINE order == StrictSubsetOrdering(Nat)
           finite == FiniteSubsetsOf(Nat)
           segments == {0 .. x : x \in T}
<1>1. IsWellFoundedOn(order, finite) BY FS_StrictSubsetOrderingWellFounded
<1>2. segments \subseteq finite /\ segments # {}
  <2>1. \A x \in T : 0 .. x \in SUBSET Nat /\ 0 \in Int /\ x \in Int OBVIOUS
  <2>2. \A x \in T : IsFiniteSet(0 .. x) BY <2>1, FS_Interval
  <2>3. QED BY <2>1, <2>2 DEF FiniteSubsetsOf
<1>3. PICK b \in segments : \A d \in segments : ~(<<d, b>> \in order)
  <2> HIDE DEF order, finite, segments
  <2>1. QED BY <1>1, <1>2, WFMin
<1>4. PICK x \in T : b = 0 .. x BY <1>3
<1>5. ASSUME NEW y \in T, y < x PROVE FALSE
  <2>1. 0 .. y \in SUBSET Nat /\ 0 .. x \in SUBSET Nat /\ 0 .. y \subseteq 0 .. x /\ 0 .. y # 0 .. x BY <1>5
  <2>2. <<0 .. y, 0 .. x>> \in order BY <2>1 DEF StrictSubsetOrdering
  <2>3. QED BY <1>3, <1>4, <2>2
<1>6. QED BY <1>5

\* The next step: there is one, and only what may be left out is.
LEMMA NextStep ==
    ASSUME NEW run \in OfARun, NEW at \in 0 .. Len(RouteOf(run.route).steps) - 1
    PROVE  /\ Following(run, at) \in at + 1 .. Len(RouteOf(run.route).steps)
           /\ at < Namer(run.route) => Following(run, at) <= Namer(run.route)
<1> DEFINE steps == RouteOf(run.route).steps
           skipped == Optional \ run.asked
           T == {n \in at + 1 .. Len(steps) : steps[n] \notin skipped}
           f == Following(run, at)
<1>1. run.route \in Providers BY DEF OfARun
<1>2. /\ Len(steps) \in Nat /\ Len(steps) > 0 /\ steps[Len(steps)] \notin Optional
      /\ Namer(run.route) \in Nat /\ (Namer(run.route) <= Len(steps) => steps[Namer(run.route)] \notin Optional)
  <2>1. Len(steps) \in 1 .. 7 /\ steps[Len(steps)] \in Works /\ \A n \in 1 .. Len(steps) : Placed(run.route, n, steps[n])
    BY <1>1, RoutesAre
  <2> HIDE DEF steps
  <2>2. Namer(run.route) \in {4, 5, 7} BY DEF Namer
  <2>3. Namer(run.route) <= Len(steps) => steps[Namer(run.route)] \in {"session", "process", "file"}
    <3>1. SUFFICES ASSUME Namer(run.route) <= Len(steps) PROVE steps[Namer(run.route)] \in {"session", "process", "file"}
      OBVIOUS
    <3>2. Namer(run.route) \in 1 .. Len(steps) BY <2>1, <2>2, <3>1
    <3>3. Placed(run.route, Namer(run.route), steps[Namer(run.route)]) BY <2>1, <3>2
    <3>4. QED BY <3>3 DEF Placed
  <2>4. Len(steps) \in Nat /\ Len(steps) > 0 /\ steps[Len(steps)] \notin Optional /\ Namer(run.route) \in Nat
    <3>1. \A w \in Works : w \notin Optional BY DEF Works, Optional
    <3>2. Namer(run.route) \in Nat BY <2>2
    <3>3. Len(steps) \in Nat /\ Len(steps) > 0
      <4> DEFINE n == Len(steps)
      <4>1. n \in 1 .. 7 BY <2>1
      <4> HIDE DEF n
      <4>2. n \in Nat /\ n > 0 BY <4>1
      <4>3. QED BY <4>2 DEF n
    <3>4. QED BY <2>1, <3>1, <3>2, <3>3
  <2>5. steps[Namer(run.route)] \in {"session", "process", "file"} => steps[Namer(run.route)] \notin Optional
    BY DEF Optional
  <2>6. QED BY <2>3, <2>4, <2>5
<1> HIDE DEF steps
<1>3. at \in Nat /\ at < Len(steps) /\ Len(steps) \in T /\ \A n \in T : n \in Nat BY <1>2 DEF steps
<1>4. T \subseteq Nat /\ T # {} BY <1>3
<1>5. PICK n \in T : \A m \in T : n <= m BY <1>4, LeastOf
<1>6. n \in at + 1 .. Len(steps) /\ steps[n] \notin skipped /\ \A m \in at + 1 .. n - 1 : steps[m] \in skipped
  <2>1. n \in at + 1 .. Len(steps) /\ steps[n] \notin skipped OBVIOUS
  <2>2. ASSUME NEW m \in at + 1 .. n - 1, steps[m] \notin skipped PROVE FALSE BY <1>2, <1>3, <2>1, <2>2, <1>5
  <2>3. QED BY <2>1, <2>2
<1>7. f = CHOOSE k \in at + 1 .. Len(steps) : steps[k] \notin skipped /\ \A m \in at + 1 .. k - 1 : steps[m] \in skipped
  BY DEF Following, steps
<1>8. f \in at + 1 .. Len(steps) /\ \A m \in at + 1 .. f - 1 : steps[m] \in skipped BY <1>6, <1>7
<1> HIDE DEF f
<1>9. ASSUME at < Namer(run.route), ~(f <= Namer(run.route)) PROVE FALSE BY <1>2, <1>3, <1>8, <1>9
<1>10. QED BY <1>8, <1>9 DEF f, steps

-----------------------------------------------------------------------------
(* Executions: what becomes of the others                                  *)

\* Sessions are begun, none goes.
SessionsGrow ==
    /\ sessions' \in Seq({"tree", "here"}) /\ Len(sessions') >= Len(sessions)
    /\ \A n \in 1 .. Len(sessions) : sessions'[n] = sessions[n]

\* A run to which nothing happened is right among more sessions.
LEMMA OthersStayRight ==
    ASSUME NEW r, RunIsRight(r, sessions, saved), SessionsGrow, sessions \in Seq({"tree", "here"})
    PROVE  RunIsRight(r, sessions', saved)
<1>1. Len(sessions) \in Nat /\ Len(sessions') \in Nat /\ r.speaks \in 0 .. Len(sessions)
  BY DEF RunIsRight, SpeaksIn, SessionsGrow
<1>2. r.speaks \in 0 .. Len(sessions') /\ (r.speaks # 0 => sessions'[r.speaks] = sessions[r.speaks])
  BY <1>1 DEF SessionsGrow
<1>3. SpeaksIn(r, sessions', saved) BY <1>2 DEF SpeaksIn, RunIsRight
<1>4. QED BY <1>3 DEF RunIsRight

\* To have heard of something is to have it in a place.
LEMMA HasHeardOf ==
    ASSUME NEW r \in OfARun, NEW why
    PROVE  Contains(r.stops, why) <=> \E n \in DOMAIN r.stops : r.stops[n] = why
<1>1. r.stops \in Seq(Stops) BY DEF OfARun
<1>2. DOMAIN r.stops = 1 .. Len(r.stops) BY <1>1
<1>3. QED BY <1>2 DEF Contains

\* A stop is heard: once, by who listens.
LEMMA HearsRight ==
    ASSUME NEW r, NEW why \in Stops, NEW ss, NEW sv, RunIsRight(r, ss, sv)
    PROVE  /\ RunIsRight(Hears(r, why), ss, sv)
           /\ Hears(r, why).ended = r.ended /\ Hears(r, why).held = r.held /\ Hears(r, why).status = r.status
           /\ Hears(r, why).route = r.route
           /\ \A n \in DOMAIN r.stops : \E m \in DOMAIN Hears(r, why).stops : Hears(r, why).stops[m] = r.stops[n]
           /\ r.ended = "no" /\ (IF why = "timeout" THEN "timer" ELSE "listener") \in r.held =>
                  \E n \in DOMAIN Hears(r, why).stops : Hears(r, why).stops[n] = why
<1> DEFINE h == Hears(r, why)
<1>1. r \in OfARun BY DEF RunIsRight
<1>2. CASE h = r /\ ~(r.ended = "no" /\ (IF why = "timeout" THEN "timer" ELSE "listener") \in r.held /\ ~Contains(r.stops, why))
  BY <1>2 DEF Contains
<1>3. CASE r.ended = "no" /\ h = [r EXCEPT !.stops = Append(r.stops, why)]
  <2>1. r.stops \in Seq(Stops) BY <1>1 DEF OfARun
  <2>2. /\ Append(r.stops, why) \in Seq(Stops) /\ Append(r.stops, why) # << >>
        /\ Len(r.stops) + 1 \in DOMAIN Append(r.stops, why) /\ Append(r.stops, why)[Len(r.stops) + 1] = why
        /\ \A n \in DOMAIN r.stops : n \in DOMAIN Append(r.stops, why) /\ Append(r.stops, why)[n] = r.stops[n]
    BY <2>1
  <2> HIDE DEF h
  <2>3. /\ h \in OfARun /\ h.stops = Append(r.stops, why) /\ h.route = r.route /\ h.asked = r.asked /\ h.at = r.at
        /\ h.held = r.held /\ h.late = r.late /\ h.answered = r.answered /\ h.speaks = r.speaks /\ h.gives = r.gives
        /\ h.cleared = r.cleared /\ h.ended = r.ended /\ h.status = r.status
    BY <1>1, <1>3, <2>2 DEF OfARun
  <2>4. StopsItHeard(h) BY <1>3, <2>2, <2>3 DEF StopsItHeard, RunIsRight
  <2>5. SpeaksIn(h, ss, sv) /\ (~LateFailures => HoldsItsOwn(h))
    BY <2>3 DEF SpeaksIn, HoldsItsOwn, RunIsRight, Cwd
  <2>6. RunIsRight(h, ss, sv) BY <2>3, <2>4, <2>5 DEF RunIsRight
  <2>7. QED BY <2>2, <2>3, <2>6 DEF h
<1>4. QED BY <1>2, <1>3 DEF Hears

\* Of the runs one goes on.
LEMMA OneGoesOn ==
    ASSUME ExecInv, NEW i \in DOMAIN runs, Running(i), SessionsGrow,
           NEW r, RunIsRight(r, sessions', saved), r.ended = "no", Change(i, r),
           aborted /\ "listener" \in r.held => \E n \in DOMAIN r.stops : r.stops[n] = "aborted"
    PROVE  ExecInv'
<1>1. /\ runs' = [runs EXCEPT ![i] = r] /\ aborted' = aborted /\ batch' = batch /\ saved' = saved
      /\ runs \in Seq(OfARun) /\ sessions \in Seq({"tree", "here"}) /\ saved \in 0 .. Len(sessions)
      /\ runs[i].ended = "no"
  BY DEF Change, ExecInv, Running
<1>2. r \in OfARun /\ r.status = "none" BY DEF RunIsRight, StopsItHeard
<1>3. /\ runs' \in Seq(OfARun) /\ DOMAIN runs' = DOMAIN runs
      /\ \A j \in DOMAIN runs : runs'[j] = IF j = i THEN r ELSE runs[j]
  BY <1>1, <1>2
<1>4. \A j \in DOMAIN runs' : RunIsRight(runs'[j], sessions', saved') BY <1>1, <1>3, OthersStayRight DEF ExecInv
<1>5. saved' \in 0 .. Len(sessions') /\ sessions' \in Seq({"tree", "here"}) BY <1>1 DEF SessionsGrow
<1>6. BatchIsWhole'
  <2>1. aborted /\ "listener" \in r.held => Contains(r.stops, "aborted") BY <1>2, HasHeardOf
  <2>2. \A j \in DOMAIN runs : aborted /\ runs'[j].ended = "no" /\ "listener" \in runs'[j].held => Contains(runs'[j].stops, "aborted")
    BY <1>3, <2>1 DEF ExecInv, BatchIsWhole, Running
  <2>3. batch.cancels /\ (\E j \in DOMAIN runs : runs'[j].status \in {"failed", "aborted", "timeout"}) => aborted
    BY <1>2, <1>3 DEF ExecInv, BatchIsWhole
  <2>4. /\ (\A j \in DOMAIN runs : runs[j].ended = "returned") <=> \A j \in DOMAIN runs : runs'[j].ended = "returned"
        /\ (\E j \in DOMAIN runs : runs[j].ended = "thrown") <=> \E j \in DOMAIN runs : runs'[j].ended = "thrown"
    BY <1>1, <1>3
  <2>5. /\ batch.settled = "resolved" <=> \A j \in DOMAIN runs : runs'[j].ended = "returned"
        /\ batch.settled = "rejected" <=> \E j \in DOMAIN runs : runs'[j].ended = "thrown"
    BY <2>4 DEF ExecInv, BatchIsWhole
  <2>6. QED BY <1>1, <1>3, <2>2, <2>3, <2>5 DEF BatchIsWhole, Running
<1>7. QED BY <1>1, <1>3, <1>4, <1>5, <1>6 DEF ExecInv

\* One returns: that it failed may be heard by the others.
LEMMA OneReturns ==
    ASSUME ExecInv, NEW i \in DOMAIN runs, Running(i), SessionsGrow,
           NEW r \in OfARun, Returns(i, r),
           RunIsRight([r EXCEPT !.held = r.held \ Finally(runs[i]), !.ended = "returned"], sessions', saved)
    PROVE  ExecInv'
<1> DEFINE over == [r EXCEPT !.held = r.held \ Finally(runs[i]), !.ended = "returned"]
           fails == batch.cancels /\ r.status # "completed"
           after == [j \in DOMAIN runs |-> IF j = i THEN over ELSE IF fails THEN Hears(runs[j], "aborted") ELSE runs[j]]
<1>1. /\ runs' = after /\ aborted' = (aborted \/ fails) /\ saved' = saved
      /\ batch' = IF batch.settled = "pending" /\ \A j \in DOMAIN runs : after[j].ended = "returned"
                  THEN [batch EXCEPT !.settled = "resolved"] ELSE batch
  BY DEF Returns
<1>2. /\ over \in OfARun /\ over.ended = "returned" /\ over.status = r.status /\ RunIsRight(over, sessions', saved)
  BY DEF OfARun, RunIsRight
<1>3. /\ runs \in Seq(OfARun) /\ sessions \in Seq({"tree", "here"}) /\ saved \in 0 .. Len(sessions) /\ aborted \in BOOLEAN
      /\ batch \in [cancels : BOOLEAN, settled : {"pending", "resolved", "rejected"}, made : Nat]
      /\ runs[i].ended = "no"
  BY DEF ExecInv, Running
<1> HIDE DEF over, fails, after
<1>4. ASSUME NEW j \in DOMAIN runs, j # i
      PROVE  /\ RunIsRight(after[j], sessions', saved) /\ after[j].ended = runs[j].ended
             /\ after[j].status = runs[j].status /\ after[j].held = runs[j].held
             /\ fails /\ after[j].ended = "no" /\ "listener" \in after[j].held => Contains(after[j].stops, "aborted")
             /\ ~fails => after[j] = runs[j]
  <2>1. RunIsRight(runs[j], sessions', saved) BY <1>3, OthersStayRight DEF ExecInv
  <2>2. CASE fails
    <3>1. after[j] = Hears(runs[j], "aborted") BY <1>4, <2>2 DEF after
    <3>2. "aborted" \in Stops /\ "aborted" # "timeout" BY DEF Stops
    <3>3. /\ RunIsRight(after[j], sessions', saved) /\ after[j].ended = runs[j].ended
          /\ after[j].status = runs[j].status /\ after[j].held = runs[j].held
          /\ runs[j].ended = "no" /\ "listener" \in runs[j].held => \E n \in DOMAIN after[j].stops : after[j].stops[n] = "aborted"
      BY <2>1, <3>1, <3>2, HearsRight
    <3>4. QED BY <2>2, <3>3, HasHeardOf DEF RunIsRight
  <2>3. CASE ~fails BY <1>4, <2>3, <2>1 DEF after
  <2>4. QED BY <2>2, <2>3
<1>5. after[i] = over /\ DOMAIN after = DOMAIN runs BY DEF after
<1>6. \A j \in DOMAIN runs : RunIsRight(after[j], sessions', saved) BY <1>2, <1>4, <1>5
<1>7. runs' \in Seq(OfARun) BY <1>6, <1>3, <1>1 DEF RunIsRight, after
<1>8. batch' \in [cancels : BOOLEAN, settled : {"pending", "resolved", "rejected"}, made : Nat] /\ batch'.cancels = batch.cancels
      /\ batch'.settled = IF batch.settled = "pending" /\ \A j \in DOMAIN runs : after[j].ended = "returned"
                          THEN "resolved" ELSE batch.settled
  BY <1>1, <1>3
<1>9. BatchIsWhole'
  <2>1. ASSUME NEW j \in DOMAIN runs, aborted', after[j].ended = "no", "listener" \in after[j].held
        PROVE  Contains(after[j].stops, "aborted")
    <3>1. j # i BY <1>2, <1>5, <2>1
    <3>2. CASE fails BY <1>4, <2>1, <3>1, <3>2
    <3>3. CASE ~fails BY <1>1, <1>4, <2>1, <3>1, <3>3 DEF ExecInv, BatchIsWhole, Running
    <3>4. QED BY <3>2, <3>3
  <2>2. ASSUME batch.cancels, NEW j \in DOMAIN runs, after[j].status \in {"failed", "aborted", "timeout"} PROVE aborted'
    <3>1. CASE fails BY <1>1, <3>1
    <3>2. CASE ~fails BY <1>2, <1>5, <2>2, <3>2, <1>1, <1>4 DEF fails, ExecInv, BatchIsWhole
    <3>3. QED BY <3>1, <3>2
  <2>3. batch.settled # "resolved" /\ (batch.settled = "rejected" <=> \E j \in DOMAIN runs : runs[j].ended = "thrown")
    BY <1>3 DEF ExecInv, BatchIsWhole
  <2>4. (\E j \in DOMAIN runs : runs[j].ended = "thrown") <=> \E j \in DOMAIN runs : after[j].ended = "thrown"
    BY <1>2, <1>3, <1>4, <1>5
  <2>5. batch'.settled = "resolved" <=> \A j \in DOMAIN runs : after[j].ended = "returned" BY <1>8, <2>3, <2>4
  <2>6. batch'.settled = "rejected" <=> \E j \in DOMAIN runs : after[j].ended = "thrown" BY <1>8, <2>3, <2>4
  <2>7. runs' = after /\ DOMAIN runs' = DOMAIN runs /\ batch'.cancels = batch.cancels BY <1>1, <1>5, <1>8
  <2>8. QED BY <2>1, <2>2, <2>5, <2>6, <2>7 DEF BatchIsWhole, Running
<1>10. QED BY <1>1, <1>3, <1>5, <1>6, <1>7, <1>8, <1>9 DEF ExecInv, SessionsGrow

\* One throws: the promise of the batch rejects.
LEMMA OneThrows ==
    ASSUME ExecInv, NEW i \in DOMAIN runs, Running(i), UNCHANGED sessions,
           NEW r \in OfARun, Threw(i, r), r.status = "none",
           RunIsRight([r EXCEPT !.held = r.held \ Finally(runs[i]), !.ended = "thrown"], sessions, saved)
    PROVE  ExecInv'
<1> DEFINE over == [r EXCEPT !.held = r.held \ Finally(runs[i]), !.ended = "thrown"]
<1>1. /\ runs' = [runs EXCEPT ![i] = over] /\ aborted' = aborted /\ saved' = saved /\ sessions' = sessions
      /\ batch' = IF batch.settled = "pending" THEN [batch EXCEPT !.settled = "rejected"] ELSE batch
  BY DEF Threw
<1>2. over \in OfARun /\ over.ended = "thrown" /\ over.status = "none" /\ RunIsRight(over, sessions, saved)
  BY DEF OfARun, RunIsRight
<1>3. /\ runs \in Seq(OfARun) /\ aborted \in BOOLEAN /\ runs[i].ended = "no"
      /\ batch \in [cancels : BOOLEAN, settled : {"pending", "resolved", "rejected"}, made : Nat]
  BY DEF ExecInv, Running
<1> HIDE DEF over
<1>4. /\ runs' \in Seq(OfARun) /\ DOMAIN runs' = DOMAIN runs
      /\ \A j \in DOMAIN runs : runs'[j] = IF j = i THEN over ELSE runs[j]
  BY <1>1, <1>2, <1>3
<1>5. batch' \in [cancels : BOOLEAN, settled : {"pending", "resolved", "rejected"}, made : Nat] /\ batch'.cancels = batch.cancels
      /\ batch'.settled = IF batch.settled = "pending" THEN "rejected" ELSE batch.settled
  BY <1>1, <1>3
<1>6. batch.settled # "resolved" BY <1>3 DEF ExecInv, BatchIsWhole
<1>7. BatchIsWhole' BY <1>1, <1>2, <1>3, <1>4, <1>5, <1>6 DEF BatchIsWhole, Running, ExecInv, Contains
<1>8. QED BY <1>1, <1>2, <1>4, <1>5, <1>7 DEF ExecInv

-----------------------------------------------------------------------------
(* Executions: how runs end                                                *)

\* What is told of how a run ended: what stopped it.
StatusFits(r) ==
    /\ r.answered \in AnswersOf(r.route)
    /\ r.late => r.stops # << >>
    /\ r.status = "completed" => r.stops = << >>
    /\ r.status \in {"aborted", "timeout"} => \E n \in DOMAIN r.stops : r.stops[n] = r.status
    /\ r.stops # << >> /\ r.answered # "refused" =>
           /\ \E n \in DOMAIN r.stops : r.stops[n] = r.status
           /\ r.route \in {"codex skills", "antigravity"} => r.status = r.stops[1]

\* And the session that is given back.
SessionFits(r, ss) ==
    /\ r.speaks \in 0 .. Len(ss)
    /\ r.speaks # 0 /\ r.route # "http" => ss[r.speaks] = Cwd(r)
    /\ r.route = "http" => ~r.cleared
    /\ r.gives \in {0, r.speaks} /\ (r.status = "completed" => r.gives # 0)
    /\ r.cleared => r.gives = 0 \/ r.gives # saved

\* Where a run may end, all that its route holds is removed but the workspace.
LEMMA EndsClean ==
    ASSUME NEW run \in OfARun, run.at \in 1 .. Len(RouteOf(run.route).steps), run.ended = "no", HoldsItsOwn(run),
           Here(run) \in {"child", "turn"} \/ run.route \in {"codex skills", "codex tier", "http"} \/ run.at = 1
    PROVE  run.held \ Finally(run) \subseteq {"workspace"} \cup IF run.route = "http" THEN {"listener"} ELSE {}
<1>1. run.held \subseteq Holdable(run.route) /\ (run.at = 1 => run.held = {}) BY DEF HoldsItsOwn
<1>2. run.route \in Providers /\ Here(run) \in StepsOf(run.route) /\ Placed(run.route, run.at, Here(run))
  BY StepHere
<1>3. CASE run.at = 1 BY <1>1, <1>3
<1>4. CASE run.route = "claude" /\ Here(run) = "child" BY <1>1, <1>4 DEF Holdable, Finally, Guards
<1>5. CASE run.route \in {"codex skills", "codex tier"} BY <1>1, <1>5 DEF Holdable, Finally, Guards
<1>6. CASE run.route = "http" BY <1>1, <1>6 DEF Holdable, Finally, Guards
<1>7. CASE run.route = "antigravity" /\ Here(run) = "turn"
  BY <1>2, <1>7, <1>1 DEF Placed, Holdable, Finally, Guards
<1>8. CASE run.route \in {"codex", "cursor", "opencode", "pi"} /\ Here(run) = "child"
  BY <1>1, <1>8 DEF Holdable, Finally, Guards
<1>9. Here(run) = "turn" => run.route \in {"codex skills", "codex tier", "antigravity"}
  BY <1>2 DEF StepsOf, Providers
<1>10. Here(run) = "child" => run.route \in {"claude", "codex", "cursor", "opencode", "pi"}
  BY <1>2 DEF StepsOf, Providers
<1>11. QED BY <1>3, <1>4, <1>5, <1>6, <1>7, <1>8, <1>9, <1>10

\* A run that ends so is right.
LEMMA EndsRight ==
    ASSUME ExecInv, NEW i \in DOMAIN runs, Running(i), SessionsGrow,
           NEW r \in OfARun, r.route = runs[i].route, r.at = runs[i].at, ~LateFailures => r.held = runs[i].held,
           Here(runs[i]) \in {"child", "turn"} \/ runs[i].route \in {"codex skills", "codex tier", "http"} \/ runs[i].at = 1,
           StatusFits(r), SessionFits(r, sessions'), Returns(i, r)
    PROVE  ExecInv'
<1> DEFINE over == [r EXCEPT !.held = r.held \ Finally(runs[i]), !.ended = "returned"]
<1>1. /\ over \in OfARun /\ over.held = r.held \ Finally(runs[i]) /\ over.ended = "returned" /\ over.route = r.route
      /\ over.asked = r.asked /\ over.at = r.at /\ over.stops = r.stops /\ over.late = r.late /\ over.answered = r.answered
      /\ over.speaks = r.speaks /\ over.gives = r.gives /\ over.cleared = r.cleared /\ over.status = r.status
  BY DEF OfARun
<1> HIDE DEF over
<1>2. /\ RunIsRight(runs[i], sessions, saved) /\ runs[i] \in OfARun /\ runs[i].ended = "no"
      /\ runs[i].at \in 1 .. Len(RouteOf(runs[i].route).steps) /\ (~LateFailures => HoldsItsOwn(runs[i]))
  BY DEF ExecInv, RunIsRight, Running
<1>3. ~LateFailures => HoldsItsOwn(over) BY <1>1, <1>2, EndsClean DEF HoldsItsOwn
<1>4. StopsItHeard(over) BY <1>1 DEF StopsItHeard, StatusFits
<1>5. SpeaksIn(over, sessions', saved) BY <1>1 DEF SpeaksIn, SessionFits, Cwd
<1>6. RunIsRight(over, sessions', saved) BY <1>1, <1>2, <1>3, <1>4, <1>5 DEF RunIsRight
<1>7. QED BY <1>6, OneReturns DEF over

\* What the stops make of the way a run ended.
LEMMA StatusOfStops ==
    ASSUME NEW run \in OfARun, NEW how \in {"completed", "failed"}
    PROVE  /\ \A t \in {FirstStop(run, how), TierStatus(run, how), ChildStatus(run, how)} :
                  /\ t \in Statuses \ {"none"} /\ (t = "completed" => how = "completed" /\ run.stops = << >>)
                  /\ t \in {"aborted", "timeout"} => \E n \in DOMAIN run.stops : run.stops[n] = t
                  /\ run.stops # << >> => \E n \in DOMAIN run.stops : run.stops[n] = t
           /\ run.stops # << >> => FirstStop(run, how) = run.stops[1]
<1>1. run.stops \in Seq(Stops) BY DEF OfARun
<1>2. run.stops # << >> => 1 \in DOMAIN run.stops /\ Head(run.stops) = run.stops[1] /\ run.stops[1] \in Stops
  BY <1>1
<1>3. \A why : Contains(run.stops, why) <=> \E n \in DOMAIN run.stops : run.stops[n] = why BY HasHeardOf
<1>4. run.stops = << >> => \A why : ~Contains(run.stops, why) BY <1>1, <1>3
<1>5. FirstStop(run, how) = IF run.stops = << >> THEN how ELSE run.stops[1] BY <1>2 DEF FirstStop
<1>6. \/ run.stops = << >> /\ TierStatus(run, how) = how /\ ChildStatus(run, how) = how
      \/ /\ run.stops # << >> /\ TierStatus(run, how) \in Stops /\ ChildStatus(run, how) \in Stops
         /\ Contains(run.stops, TierStatus(run, how)) /\ Contains(run.stops, ChildStatus(run, how))
  <2>1. CASE run.stops = << >> BY <1>4, <2>1 DEF TierStatus, ChildStatus
  <2>2. CASE run.stops # << >> BY <1>2, <1>3, <2>2 DEF Stops, TierStatus, ChildStatus
  <2>3. QED BY <2>1, <2>2
<1>7. QED BY <1>2, <1>3, <1>5, <1>6 DEF Statuses, Stops

\* And what is told of it, by each route.
LEMMA ToldFits ==
    ASSUME NEW run \in OfARun, NEW how \in {"completed", "failed"}, run.route = "http" /\ run.answered = "refused" => how = "failed"
    PROVE  /\ Told(run, how) \in Statuses \ {"none"}
           /\ Told(run, how) = "completed" => how = "completed" /\ run.stops = << >>
           /\ Told(run, how) \in {"aborted", "timeout"} => \E n \in DOMAIN run.stops : run.stops[n] = Told(run, how)
           /\ run.stops # << >> /\ run.answered # "refused" =>
                  /\ \E n \in DOMAIN run.stops : run.stops[n] = Told(run, how)
                  /\ run.route \in {"codex skills", "antigravity"} => Told(run, how) = run.stops[1]
<1>1. \/ Told(run, how) = how /\ run.answered = "refused" /\ run.route = "http"
      \/ Told(run, how) = FirstStop(run, how)
      \/ Told(run, how) \in {TierStatus(run, how), ChildStatus(run, how)} /\ run.route \notin {"codex skills", "antigravity"}
  BY DEF Told, HttpStatus
<1>2. CASE Told(run, how) = how /\ run.answered = "refused" /\ run.route = "http" BY <1>2 DEF Statuses
<1>3. CASE Told(run, how) = FirstStop(run, how) BY <1>3, StatusOfStops
<1>4. CASE Told(run, how) \in {TierStatus(run, how), ChildStatus(run, how)} /\ run.route \notin {"codex skills", "antigravity"}
  BY <1>4, StatusOfStops
<1>5. QED BY <1>1, <1>2, <1>3, <1>4

\* The session that a prompt goes to.
LEMMA SpeaksRight ==
    ASSUME sessions \in Seq({"tree", "here"}), saved \in 0 .. Len(sessions), NEW run \in OfARun, NEW s, Speaks(run, s)
    PROVE  /\ SessionsGrow /\ s \in 1 .. Len(sessions')
           /\ run.route # "http" => sessions'[s] = Cwd(run)
           /\ run.cleared => s # saved
<1>1. Len(sessions) \in Nat /\ saved \in Nat /\ Cwd(run) \in {"tree", "here"} BY DEF Cwd
<1>2. CASE Resumes(run) /\ s = saved
  <2>1. saved # 0 /\ ~run.cleared /\ (run.route = "http" \/ sessions[saved] = Cwd(run)) BY <1>2 DEF Resumes
  <2>2. sessions' = sessions BY <1>1, <1>2 DEF Speaks
  <2>3. QED BY <1>1, <1>2, <2>1, <2>2 DEF SessionsGrow
<1>3. CASE s = Len(sessions) + 1
  <2>1. sessions' = Append(sessions, Cwd(run))
    <3>1. sessions' = IF s > Len(sessions) THEN Append(sessions, Cwd(run)) ELSE sessions BY DEF Speaks
    <3>2. s > Len(sessions) BY <1>1, <1>3
    <3>3. QED BY <3>1, <3>2
  <2>2. /\ sessions' \in Seq({"tree", "here"}) /\ Len(sessions') = Len(sessions) + 1
        /\ \A n \in 1 .. Len(sessions) : sessions'[n] = sessions[n]
        /\ sessions'[Len(sessions) + 1] = Cwd(run)
    BY <1>1, <2>1
  <2>3. SessionsGrow BY <1>1, <2>2 DEF SessionsGrow
  <2>4. QED BY <1>1, <1>3, <2>2, <2>3
<1>4. QED BY <1>2, <1>3 DEF Speaks

LEMMA SessionsStay ==
    ASSUME sessions \in Seq({"tree", "here"}), UNCHANGED sessions
    PROVE  SessionsGrow
<1>1. Len(sessions) \in Nat OBVIOUS
<1>2. QED BY <1>1 DEF SessionsGrow

-----------------------------------------------------------------------------
(* Executions: steps before the work                                       *)

\* What is known of a run that is still going on.
LEMMA RunningIsRight ==
    ASSUME ExecInv, NEW i \in DOMAIN runs, Running(i)
    PROVE  /\ RunIsRight(runs[i], sessions, saved) /\ runs[i] \in OfARun /\ runs[i].ended = "no" /\ runs[i].gives = 0
           /\ runs[i].status = "none" /\ runs[i].at \in 1 .. Len(RouteOf(runs[i].route).steps)
           /\ (~LateFailures => HoldsItsOwn(runs[i]))
           /\ StopsItHeard(runs[i]) /\ SpeaksIn(runs[i], sessions, saved) /\ runs[i].answered \in AnswersOf(runs[i].route)
           /\ sessions \in Seq({"tree", "here"}) /\ saved \in 0 .. Len(sessions) /\ aborted \in BOOLEAN
           /\ aborted /\ "listener" \in runs[i].held => \E n \in DOMAIN runs[i].stops : runs[i].stops[n] = "aborted"
           /\ runs \in Seq(OfARun)
<1>1. /\ RunIsRight(runs[i], sessions, saved) /\ runs[i].ended = "no" /\ runs \in Seq(OfARun)
      /\ sessions \in Seq({"tree", "here"}) /\ saved \in 0 .. Len(sessions) /\ aborted \in BOOLEAN /\ BatchIsWhole
  BY DEF ExecInv, Running
<1>2. /\ runs[i] \in OfARun /\ runs[i].at \in 1 .. Len(RouteOf(runs[i].route).steps)
      /\ (~LateFailures => HoldsItsOwn(runs[i])) /\ StopsItHeard(runs[i]) /\ SpeaksIn(runs[i], sessions, saved)
  BY <1>1 DEF RunIsRight
<1>3. runs[i].gives = 0 /\ runs[i].status = "none" /\ runs[i].answered \in AnswersOf(runs[i].route)
  BY <1>1, <1>2 DEF SpeaksIn, StopsItHeard
<1>4. aborted /\ "listener" \in runs[i].held => Contains(runs[i].stops, "aborted")
  BY <1>1 DEF BatchIsWhole, Running
<1>5. QED BY <1>1, <1>2, <1>3, <1>4, HasHeardOf

\* A run one step further, that holds more.
Advanced(run, more) == [run EXCEPT !.held = run.held \cup more, !.at = Following(run, run.at)]

\* A step before the work is behind a run, with what it staged or what is left of it.
LEMMA StepGoesOn ==
    ASSUME ExecInv, NEW i \in DOMAIN runs, Running(i), Here(runs[i]) \notin Works,
           NEW more, more \subseteq Stages(runs[i]) \/ (LateFailures /\ more \subseteq {"remains"}),
           NEW next, next = Advanced(runs[i], more)
    PROVE  /\ next \in OfARun /\ next.at \in 1 .. Len(RouteOf(next.route).steps)
           /\ next.at > runs[i].at /\ (runs[i].at < Namer(next.route) => next.at <= Namer(next.route))
           /\ (~LateFailures => HoldsItsOwn(next)) /\ StopsItHeard(next)
           /\ next.held = runs[i].held \cup more /\ next.route = runs[i].route /\ next.asked = runs[i].asked
           /\ next.stops = runs[i].stops /\ next.speaks = runs[i].speaks /\ next.gives = 0
           /\ next.cleared = runs[i].cleared /\ next.ended = "no" /\ next.status = "none"
           /\ next.route \in Sayers /\ "process" \in next.held => "process" \in runs[i].held
           /\ Here(runs[i]) # "guards" /\ "listener" \in next.held => "listener" \in runs[i].held
<1> DEFINE run == runs[i]
<1>1. /\ run \in OfARun /\ run.ended = "no" /\ run.gives = 0 /\ run.status = "none"
      /\ run.at \in 1 .. Len(RouteOf(run.route).steps) /\ (~LateFailures => HoldsItsOwn(run)) /\ StopsItHeard(run)
  BY RunningIsRight
<1>2. /\ run.at < Len(RouteOf(run.route).steps) /\ Len(RouteOf(run.route).steps) \in 1 .. 7 /\ run.at \in Nat \ {0}
  BY <1>1, StepHere DEF OfARun
<1>3. /\ Stages(run) \subseteq Holdable(run.route)
      /\ Stages(run) \subseteq {"tier", "workspace", "skills", "mcp", "process", "timer", "listener", "remains"}
      /\ run.route \in Sayers /\ Here(run) # "child" => "process" \notin Stages(run)
      /\ Here(run) \notin {"guards", "child"} => "listener" \notin Stages(run)
      /\ Here(run) # "child"
  BY <1>1, StagesAreHoldable DEF Works
<1>4. more \subseteq {"tier", "workspace", "skills", "mcp", "process", "timer", "listener", "remains"} BY <1>3
<1> DEFINE f == Following(run, run.at)
<1>5. f \in run.at + 1 .. Len(RouteOf(run.route).steps) /\ (run.at < Namer(run.route) => f <= Namer(run.route))
  BY <1>2, <1>1, NextStep
<1>6. f \in Nat \ {0} /\ f \in 1 .. Len(RouteOf(run.route).steps) /\ f > run.at /\ f # 1 BY <1>2, <1>5
<1>7. next = [run EXCEPT !.held = run.held \cup more, !.at = f] BY DEF Advanced
<1> HIDE DEF run, f
<1>8. run.held \cup more \in SUBSET {"tier", "workspace", "skills", "mcp", "process", "timer", "listener", "remains"}
  BY <1>1, <1>4 DEF OfARun
<1>9. /\ next \in OfARun /\ next.at = f /\ next.held = run.held \cup more /\ next.route = run.route /\ next.asked = run.asked
      /\ next.stops = run.stops /\ next.late = run.late /\ next.answered = run.answered /\ next.speaks = run.speaks
      /\ next.gives = run.gives /\ next.cleared = run.cleared /\ next.ended = run.ended /\ next.status = run.status
  BY <1>1, <1>6, <1>7, <1>8 DEF OfARun
<1>10. ~LateFailures => HoldsItsOwn(next)
  <2>1. SUFFICES ASSUME ~LateFailures PROVE HoldsItsOwn(next) OBVIOUS
  <2>2. run.held \subseteq Holdable(run.route) /\ more \subseteq Holdable(run.route)
    BY <1>1, <1>3, <2>1 DEF HoldsItsOwn, run
  <2>3. QED BY <1>1, <1>6, <1>9, <2>2 DEF HoldsItsOwn
<1>11. StopsItHeard(next) BY <1>1, <1>9 DEF StopsItHeard
<1>12. next.route \in Sayers /\ "process" \in next.held => "process" \in run.held BY <1>3, <1>9 DEF run
<1>13. Here(run) # "guards" /\ "listener" \in next.held => "listener" \in run.held BY <1>3, <1>9 DEF run
<1>14. QED BY <1>1, <1>5, <1>6, <1>9, <1>10, <1>11, <1>12, <1>13 DEF run

\* Where no session is named a run goes on speaking in the one it has.
LEMMA SpeaksOn ==
    ASSUME ExecInv, NEW i \in DOMAIN runs, Running(i), Here(runs[i]) \notin Works \cup {"session", "process", "file"},
           NEW more, more \subseteq Stages(runs[i]) \/ (LateFailures /\ more \subseteq {"remains"}),
           NEW next, next = Advanced(runs[i], more)
    PROVE  RunIsRight(next, sessions, saved)
<1> DEFINE run == runs[i]
<1>1. /\ run \in OfARun /\ run.ended = "no" /\ run.at \in 1 .. Len(RouteOf(run.route).steps) /\ SpeaksIn(run, sessions, saved)
  BY RunningIsRight
<1>2. /\ next \in OfARun /\ next.at \in 1 .. Len(RouteOf(next.route).steps)
      /\ (run.at < Namer(next.route) => next.at <= Namer(next.route))
      /\ (~LateFailures => HoldsItsOwn(next)) /\ StopsItHeard(next)
      /\ next.route = run.route /\ next.asked = run.asked
      /\ next.speaks = run.speaks /\ next.gives = 0
      /\ next.cleared = run.cleared /\ next.ended = "no" /\ next.status = "none" /\ run.held \subseteq next.held
      /\ next.route \in Sayers /\ "process" \in next.held => "process" \in run.held
  BY StepGoesOn
<1>3. run.at # Namer(run.route) /\ run.at \in Nat /\ Namer(run.route) \in Nat /\ next.at \in Nat
  <2>1. Placed(run.route, run.at, Here(run)) BY <1>1, StepHere
  <2>2. QED BY <1>1, <1>2, <2>1 DEF Placed, OfARun, Namer
<1> HIDE DEF run
<1>4. next.at > Namer(next.route) => next.speaks # 0 BY <1>1, <1>2, <1>3 DEF SpeaksIn
<1>5. SpeaksIn(next, sessions, saved) BY <1>1, <1>2, <1>4 DEF SpeaksIn, Cwd
<1>6. QED BY <1>2, <1>5 DEF RunIsRight

\* A run that begins to work after the signal was aborted hears of it first.
LEMMA LateIsHeard ==
    ASSUME NEW r, RunIsRight(r, sessions, saved), r.ended = "no", "listener" \in r.held,
           NEW l, l = [r EXCEPT !.late = TRUE]
    PROVE  /\ RunIsRight(Hears(l, "aborted"), sessions, saved) /\ Hears(l, "aborted").ended = "no"
           /\ \E n \in DOMAIN Hears(l, "aborted").stops : Hears(l, "aborted").stops[n] = "aborted"
<1> DEFINE h == Hears(r, "aborted")
           k == Hears(l, "aborted")
<1>1. "aborted" \in Stops /\ "aborted" # "timeout" BY DEF Stops
<1>2. /\ RunIsRight(h, sessions, saved) /\ h.ended = "no"
      /\ \E n \in DOMAIN h.stops : h.stops[n] = "aborted"
  BY <1>1, HearsRight
<1>3. r \in OfARun /\ h \in OfARun BY <1>2 DEF RunIsRight
<1>4. k = [h EXCEPT !.late = TRUE] BY <1>3 DEF Hears, OfARun
<1> HIDE DEF h, k
<1>5. /\ k \in OfARun /\ k.late = TRUE /\ k.at = h.at /\ k.held = h.held /\ k.route = h.route /\ k.asked = h.asked
      /\ k.stops = h.stops /\ k.answered = h.answered /\ k.speaks = h.speaks
      /\ k.gives = h.gives /\ k.cleared = h.cleared /\ k.ended = h.ended /\ k.status = h.status
  BY <1>3, <1>4 DEF OfARun
<1>6. h.stops # << >> BY <1>3, <1>2 DEF OfARun
<1>7. StopsItHeard(k) BY <1>2, <1>5, <1>6 DEF StopsItHeard, RunIsRight
<1>8. SpeaksIn(k, sessions, saved) /\ (~LateFailures => HoldsItsOwn(k))
  BY <1>2, <1>5 DEF SpeaksIn, HoldsItsOwn, RunIsRight, Cwd
<1>9. RunIsRight(k, sessions, saved) BY <1>2, <1>5, <1>7, <1>8 DEF RunIsRight
<1>10. QED BY <1>2, <1>5, <1>9 DEF k

\* A step before the work passes.
LEMMA PassesStays ==
    ASSUME ExecInv, NEW i \in DOMAIN runs, NEW s, Passes(i, s)
    PROVE  ExecInv'
<1> DEFINE run == runs[i]
           more == Stages(run) \ Untimed(run)
           next == Advanced(run, more)
           named == [next EXCEPT !.speaks = s, !.cleared = GivesUp(run, s)]
<1>1. Running(i) /\ Here(run) \notin Works BY DEF Passes, Prepares
<1>2. \/ /\ Here(run) \in {"session", "process", "file"} /\ Speaks(run, s) /\ Change(i, named)
      \/ /\ Here(run) \notin {"session", "process", "file"} /\ UNCHANGED sessions
         /\ Change(i, IF Here(run) = "guards" THEN HearsBefore([next EXCEPT !.late = aborted]) ELSE next)
  BY DEF Passes, Advanced
<1>3. /\ RunIsRight(run, sessions, saved) /\ run \in OfARun /\ run.ended = "no" /\ run.gives = 0
      /\ run.at \in 1 .. Len(RouteOf(run.route).steps) /\ SpeaksIn(run, sessions, saved)
      /\ sessions \in Seq({"tree", "here"}) /\ saved \in 0 .. Len(sessions) /\ aborted \in BOOLEAN
      /\ aborted /\ "listener" \in run.held => \E n \in DOMAIN run.stops : run.stops[n] = "aborted"
  BY <1>1, RunningIsRight
<1>4. more \subseteq Stages(runs[i]) OBVIOUS
<1> HIDE DEF more, next
<1>5. next = Advanced(runs[i], more) BY DEF next
<1>6. /\ next \in OfARun /\ next.at \in 1 .. Len(RouteOf(next.route).steps)
      /\ (~LateFailures => HoldsItsOwn(next)) /\ StopsItHeard(next)
      /\ next.held = run.held \cup more /\ next.route = run.route /\ next.asked = run.asked
      /\ next.stops = run.stops /\ next.speaks = run.speaks /\ next.gives = 0
      /\ next.cleared = run.cleared /\ next.ended = "no" /\ next.status = "none"
      /\ next.route \in Sayers /\ "process" \in next.held => "process" \in run.held
      /\ Here(run) # "guards" /\ "listener" \in next.held => "listener" \in run.held
  BY <1>1, <1>4, <1>5, StepGoesOn
<1>7. CASE Here(run) \in {"session", "process", "file"}
  <2>1. Speaks(run, s) /\ Change(i, named) BY <1>2, <1>7
  <2>2. /\ SessionsGrow /\ s \in 1 .. Len(sessions')
        /\ run.route # "http" => sessions'[s] = Cwd(run)
        /\ run.cleared => s # saved
    BY <1>3, <2>1, SpeaksRight
  <2>3. run.route \notin Sayers /\ run.route # "http"
    <3>1. run.route \in Providers /\ Here(run) \in StepsOf(run.route) BY <1>3, StepHere
    <3>2. QED BY <1>7, <3>1 DEF StepsOf, Sayers, Providers
  <2>4. GivesUp(run, s) \in BOOLEAN /\ (GivesUp(run, s) => s # saved)
    <3>1. run.cleared \in BOOLEAN BY <1>3 DEF OfARun
    <3>2. QED BY <2>2, <3>1 DEF GivesUp, Resumes
  <2>5. /\ named \in OfARun /\ named.at = next.at /\ named.held = next.held /\ named.route = next.route
        /\ named.asked = next.asked /\ named.stops = next.stops /\ named.late = next.late
        /\ named.answered = next.answered /\ named.speaks = s /\ named.gives = next.gives
        /\ named.cleared = GivesUp(run, s) /\ named.ended = next.ended /\ named.status = next.status
    <3>1. s \in Nat BY <2>2
    <3>2. QED BY <1>6, <2>4, <3>1 DEF OfARun
  <2> HIDE DEF named
  <2>6. ~LateFailures => HoldsItsOwn(named) BY <1>6, <2>5 DEF HoldsItsOwn
  <2>7. StopsItHeard(named) BY <1>6, <2>5 DEF StopsItHeard
  <2>8. SpeaksIn(named, sessions', saved) BY <2>2, <1>6, <2>5, <2>3, <2>4 DEF Cwd, SpeaksIn
  <2>9. RunIsRight(named, sessions', saved) BY <1>6, <2>5, <2>6, <2>7, <2>8 DEF RunIsRight
  <2>10. aborted /\ "listener" \in named.held => \E n \in DOMAIN named.stops : named.stops[n] = "aborted"
    BY <1>3, <1>6, <1>7, <2>5
  <2>11. named.ended = "no" BY <1>6, <2>5
  <2>12. QED BY <1>1, <2>1, <2>2, <2>9, <2>10, <2>11, OneGoesOn
<1>8. CASE Here(run) \notin {"session", "process", "file"}
  <2>1. RunIsRight(next, sessions, saved) BY <1>1, <1>8, <1>4, <1>5, SpeaksOn
  <2>2. SessionsGrow /\ sessions' = sessions BY <1>2, <1>3, <1>8, SessionsStay
  <2>3. CASE Here(run) # "guards" BY <1>2, <1>8, <2>3, <1>3, <1>6, <1>1, <2>1, <2>2, OneGoesOn
  <2>6. CASE Here(run) = "guards" /\ ~aborted
    <3> DEFINE k == [next EXCEPT !.late = FALSE]
    <3>1. Change(i, k) BY <1>2, <1>3, <1>8, <2>6 DEF HearsBefore
    <3>2. /\ k \in OfARun /\ k.late = FALSE /\ k.at = next.at /\ k.held = next.held /\ k.route = next.route /\ k.asked = next.asked
          /\ k.stops = next.stops /\ k.answered = next.answered /\ k.speaks = next.speaks
          /\ k.gives = next.gives /\ k.cleared = next.cleared /\ k.ended = next.ended /\ k.status = next.status
      BY <1>6 DEF OfARun
    <3> HIDE DEF k
    <3>3. StopsItHeard(k) BY <1>6, <3>2 DEF StopsItHeard
    <3>4. SpeaksIn(k, sessions, saved) /\ (~LateFailures => HoldsItsOwn(k))
      BY <2>1, <3>2 DEF SpeaksIn, HoldsItsOwn, RunIsRight, Cwd
    <3>5. RunIsRight(k, sessions, saved) BY <1>6, <3>2, <3>3, <3>4 DEF RunIsRight
    <3>6. QED BY <1>1, <1>6, <2>2, <2>6, <3>1, <3>2, <3>5, OneGoesOn
  <2>4. CASE Here(run) = "guards" /\ aborted
    <3> DEFINE l == [next EXCEPT !.late = TRUE]
               h == Hears(l, "aborted")
    <3>1. "listener" \in next.held BY <1>3, <2>4, StagesAreHoldable, <1>6 DEF more, Untimed
    <3>2. RunIsRight(h, sessions, saved) /\ h.ended = "no" /\ \E n \in DOMAIN h.stops : h.stops[n] = "aborted"
      BY <1>6, <2>1, <3>1, LateIsHeard
    <3>3. Change(i, h) BY <1>2, <1>3, <1>8, <2>4 DEF HearsBefore
    <3> HIDE DEF h
    <3>4. QED BY <1>1, <2>2, <3>2, <3>3, OneGoesOn
  <2>5. QED BY <1>3, <2>3, <2>4, <2>6
<1>9. QED BY <1>7, <1>8

\* A run goes on, having heard of nothing new.
LEMMA GoesOnAs ==
    ASSUME ExecInv, NEW i \in DOMAIN runs, Running(i), SessionsGrow,
           NEW k \in OfARun, Change(i, k), k.route = runs[i].route, k.ended = "no", k.status = "none",
           k.late = runs[i].late, k.stops = runs[i].stops, k.answered \in AnswersOf(k.route), k.at \in 1 .. Len(RouteOf(k.route).steps), k.at # 1,
           ~LateFailures => k.held \subseteq Holdable(k.route),
           "listener" \in k.held => "listener" \in runs[i].held \/ ~aborted,
           SpeaksIn(k, sessions', saved)
    PROVE  ExecInv'
<1>1. /\ StopsItHeard(runs[i])
      /\ aborted /\ "listener" \in runs[i].held => \E n \in DOMAIN runs[i].stops : runs[i].stops[n] = "aborted"
  BY RunningIsRight
<1>2. StopsItHeard(k) BY <1>1 DEF StopsItHeard
<1>3. ~LateFailures => HoldsItsOwn(k) BY DEF HoldsItsOwn
<1>4. RunIsRight(k, sessions', saved) BY <1>2, <1>3 DEF RunIsRight
<1>5. QED BY <1>1, <1>4, OneGoesOn

\* A child is started.
LEMMA StartsChildStays ==
    ASSUME ExecInv, NEW i \in DOMAIN runs, NEW s, StartsChild(i, s)
    PROVE  ExecInv'
<1> DEFINE run == runs[i]
           more == Stages(run) \ Untimed(run)
           k == [run EXCEPT !.held = run.held \cup more, !.speaks = s]
<1>1. /\ Running(i) /\ Here(run) = "child" /\ ~aborted /\ Change(i, k)
      /\ IF run.route = "pi" THEN s = run.speaks /\ UNCHANGED sessions ELSE Speaks(run, s)
  BY DEF StartsChild
<1>2. /\ run \in OfARun /\ run.ended = "no" /\ run.gives = 0 /\ run.status = "none" /\ run.answered \in AnswersOf(run.route)
      /\ SpeaksIn(run, sessions, saved)
      /\ run.at \in 1 .. Len(RouteOf(run.route).steps) /\ (~LateFailures => HoldsItsOwn(run))
      /\ sessions \in Seq({"tree", "here"}) /\ saved \in 0 .. Len(sessions)
  BY <1>1, RunningIsRight
<1>3. /\ more \subseteq Holdable(run.route)
      /\ more \subseteq {"tier", "workspace", "skills", "mcp", "process", "timer", "listener", "remains"}
  BY <1>2, StagesAreHoldable
<1>4. run.route \in Sayers \cup {"pi"} /\ run.route # "http" /\ run.at # 1 /\ (run.route = "pi" => run.at > Namer(run.route))
  <2>1. run.route \in Providers /\ Here(run) \in StepsOf(run.route) /\ Placed(run.route, run.at, Here(run))
    BY <1>2, StepHere
  <2>2. run.route \in Sayers \cup {"pi"} /\ run.route # "http" BY <1>1, <2>1 DEF StepsOf, Sayers, Providers
  <2>3. run.at > 4 BY <1>1, <2>1 DEF Placed
  <2>4. QED BY <1>1, <2>1, <2>2, <2>3 DEF Placed
<1>5. /\ SessionsGrow /\ s \in 1 .. Len(sessions') /\ sessions'[s] = Cwd(run)
      /\ run.cleared => s # saved
  <2>1. CASE run.route = "pi"
    <3>1. s = run.speaks /\ sessions' = sessions /\ SessionsGrow BY <1>1, <1>2, <2>1, SessionsStay
    <3>2. run.speaks # 0 /\ run.speaks \in 0 .. Len(sessions) /\ sessions[run.speaks] = Cwd(run)
      BY <1>2, <1>4, <2>1 DEF SpeaksIn
    <3>3. run.cleared => run.speaks # saved BY <2>1, <1>2 DEF Sayers, SpeaksIn
    <3>4. QED BY <3>1, <3>2, <3>3
  <2>2. CASE run.route # "pi" BY <1>1, <1>2, <1>4, <2>2, SpeaksRight
  <2>3. QED BY <2>1, <2>2
<1> HIDE DEF more
<1>6. /\ k \in OfARun /\ k.held = run.held \cup more /\ k.speaks = s /\ k.route = run.route /\ k.asked = run.asked
      /\ k.at = run.at /\ k.late = run.late /\ k.stops = run.stops /\ k.gives = run.gives /\ k.cleared = run.cleared
      /\ k.ended = run.ended /\ k.status = run.status /\ k.answered = run.answered
  <2>1. s \in Nat BY <1>5
  <2>2. QED BY <1>2, <1>3, <2>1 DEF OfARun
<1> HIDE DEF k
<1>7. SpeaksIn(k, sessions', saved) BY <1>5, <1>6, <1>2, <1>4 DEF Cwd, SpeaksIn
<1>8. ~LateFailures => k.held \subseteq Holdable(k.route) BY <1>2, <1>3, <1>6 DEF HoldsItsOwn
<1>9. QED BY <1>1, <1>2, <1>4, <1>5, <1>6, <1>7, <1>8, GoesOnAs

\* Another child is started without the session.
LEMMA StartsOverStays ==
    ASSUME ExecInv, NEW i \in DOMAIN runs, StartsOver(i)
    PROVE  ExecInv'
<1> DEFINE run == runs[i]
           k == [run EXCEPT !.held = run.held \ (Guards \cup {"process"}), !.cleared = TRUE]
           l == [k EXCEPT !.speaks = Len(sessions) + 1]
<1>1. /\ Running(i) /\ Here(run) = "child"
      /\ IF run.route = "pi" THEN Change(i, l) /\ sessions' = Append(sessions, Cwd(k)) ELSE Change(i, k) /\ UNCHANGED sessions
  <2>1. Running(i) /\ runs[i] \in OfARun BY RunningIsRight DEF StartsOver
  <2>2. k.route = run.route /\ k.at = run.at BY <2>1 DEF OfARun
  <2>3. /\ Here(k) = "child"
        /\ IF k.route = "pi" THEN Change(i, l) /\ sessions' = Append(sessions, Cwd(k)) ELSE Change(i, k) /\ UNCHANGED sessions
    BY DEF StartsOver
  <2> HIDE DEF k
  <2>4. QED BY <2>1, <2>2, <2>3 DEF Here
<1>2. /\ run \in OfARun /\ run.ended = "no" /\ run.gives = 0 /\ run.status = "none" /\ run.answered \in AnswersOf(run.route)
      /\ SpeaksIn(run, sessions, saved)
      /\ run.at \in 1 .. Len(RouteOf(run.route).steps) /\ (~LateFailures => HoldsItsOwn(run))
      /\ sessions \in Seq({"tree", "here"}) /\ saved \in 0 .. Len(sessions) /\ Len(sessions) \in Nat
  BY <1>1, RunningIsRight
<1>3. run.route \in Sayers \cup {"pi"} /\ run.route # "http" /\ run.at # 1
  <2>1. run.route \in Providers /\ Here(run) \in StepsOf(run.route) /\ Placed(run.route, run.at, Here(run))
    BY <1>2, StepHere
  <2>2. run.route \in Sayers \cup {"pi"} /\ run.route # "http" BY <1>1, <2>1 DEF StepsOf, Sayers, Providers
  <2>3. run.at > 4 BY <1>1, <2>1 DEF Placed
  <2>4. QED BY <2>2, <2>3
<1>4. /\ k \in OfARun /\ k.held = run.held \ (Guards \cup {"process"}) /\ k.speaks = run.speaks /\ k.route = run.route
      /\ k.asked = run.asked /\ k.at = run.at /\ k.late = run.late /\ k.stops = run.stops /\ k.gives = run.gives
      /\ k.cleared = TRUE /\ k.ended = run.ended /\ k.status = run.status /\ Cwd(k) = Cwd(run) /\ k.answered = run.answered
  BY <1>2 DEF OfARun, Cwd
<1> HIDE DEF k
<1>5. /\ l \in OfARun /\ l.held = k.held /\ l.speaks = Len(sessions) + 1 /\ l.route = run.route
      /\ l.asked = run.asked /\ l.at = run.at /\ l.late = run.late /\ l.stops = run.stops /\ l.gives = run.gives
      /\ l.cleared = TRUE /\ l.ended = run.ended /\ l.status = run.status /\ Cwd(l) = Cwd(run) /\ l.answered = run.answered
  <2>1. Len(sessions) + 1 \in Nat BY <1>2
  <2>2. /\ l \in OfARun /\ l.held = k.held /\ l.speaks = Len(sessions) + 1 /\ l.route = k.route
        /\ l.asked = k.asked /\ l.at = k.at /\ l.late = k.late /\ l.stops = k.stops /\ l.gives = k.gives
        /\ l.cleared = k.cleared /\ l.ended = k.ended /\ l.status = k.status /\ l.answered = k.answered
    BY <1>4, <2>1 DEF OfARun
  <2>3. Cwd(l) = Cwd(k) BY <2>2 DEF Cwd
  <2>4. QED BY <1>4, <2>2, <2>3
<1> HIDE DEF l
<1>6. "listener" \notin k.held /\ "process" \notin k.held /\ (~LateFailures => k.held \subseteq Holdable(run.route))
  BY <1>2, <1>4 DEF HoldsItsOwn, Guards
<1>7. CASE run.route = "pi"
  <2>1. /\ sessions' \in Seq({"tree", "here"}) /\ Len(sessions') = Len(sessions) + 1
        /\ \A n \in 1 .. Len(sessions) : sessions'[n] = sessions[n]
        /\ sessions'[Len(sessions) + 1] = Cwd(run)
    <3>1. Cwd(run) \in {"tree", "here"} /\ sessions' = Append(sessions, Cwd(run)) BY <1>1, <1>4, <1>7 DEF Cwd
    <3>2. QED BY <1>2, <3>1
  <2>2. SessionsGrow BY <1>2, <2>1 DEF SessionsGrow
  <2>3. SpeaksIn(l, sessions', saved) BY <1>2, <1>5, <2>1, <1>3 DEF SpeaksIn
  <2>4. QED BY <1>1, <1>2, <1>3, <1>5, <1>6, <1>7, <2>2, <2>3, GoesOnAs
<1>8. CASE run.route # "pi" BY <1>1, <1>2, <1>8, SessionsStay, <1>3, <1>4, <1>6, GoesOnAs DEF SpeaksIn
<1>9. QED BY <1>7, <1>8

\* An answer, with the process still there.
LEMMA AnswersStays ==
    ASSUME ExecInv, NEW i \in DOMAIN runs, NEW how \in Hows, Answers(i, how)
    PROVE  ExecInv'
<1> DEFINE run == runs[i]
           k == [run EXCEPT !.answered = how]
<1>1. Running(i) /\ Here(run) = "turn" /\ Change(i, k) /\ UNCHANGED sessions BY DEF Answers
<1>2. /\ run \in OfARun /\ run.ended = "no" /\ run.gives = 0 /\ run.status = "none" /\ run.answered \in AnswersOf(run.route)
      /\ SpeaksIn(run, sessions, saved)
      /\ run.at \in 1 .. Len(RouteOf(run.route).steps) /\ (~LateFailures => HoldsItsOwn(run))
      /\ sessions \in Seq({"tree", "here"})
  BY <1>1, RunningIsRight
<1>3. run.at # 1 /\ how \in AnswersOf(run.route)
  <2>1. run.route \in Providers /\ Here(run) \in StepsOf(run.route) /\ Placed(run.route, run.at, Here(run))
    BY <1>2, StepHere
  <2>2. run.at > 4 BY <1>1, <2>1 DEF Placed
  <2>3. run.route # "http" BY <1>1, <2>1 DEF StepsOf
  <2>4. QED BY <2>2, <2>3 DEF AnswersOf, Hows
<1>4. /\ k \in OfARun /\ k.held = run.held /\ k.speaks = run.speaks /\ k.route = run.route /\ k.asked = run.asked
      /\ k.at = run.at /\ k.late = run.late /\ k.stops = run.stops /\ k.gives = run.gives /\ k.cleared = run.cleared
      /\ k.ended = run.ended /\ k.status = run.status /\ k.answered = how
  BY <1>2 DEF OfARun, Hows
<1> HIDE DEF k
<1>5. sessions' = sessions /\ SessionsGrow BY <1>1, <1>2, SessionsStay
<1>6. SpeaksIn(k, sessions, saved) BY <1>2, <1>4 DEF SpeaksIn, Cwd
<1>7. ~LateFailures => k.held \subseteq Holdable(k.route) BY <1>2, <1>4 DEF HoldsItsOwn
<1>8. QED BY <1>1, <1>2, <1>3, <1>4, <1>5, <1>6, <1>7, GoesOnAs

\* An HTTP agent has answered.
LEMMA RespondsStays ==
    ASSUME ExecInv, NEW i \in DOMAIN runs, NEW ok \in BOOLEAN, Responds(i, ok)
    PROVE  ExecInv'
<1> DEFINE run == runs[i]
           k == [run EXCEPT !.at = run.at + 1, !.held = run.held \ {"timer"}, !.answered = IF ok THEN "ok" ELSE "refused"]
<1>1. Running(i) /\ Here(run) = "request" /\ Change(i, k) /\ UNCHANGED sessions BY DEF Responds
<1>2. /\ run \in OfARun /\ run.ended = "no" /\ run.gives = 0 /\ run.status = "none" /\ run.answered \in AnswersOf(run.route)
      /\ SpeaksIn(run, sessions, saved)
      /\ run.at \in 1 .. Len(RouteOf(run.route).steps) /\ (~LateFailures => HoldsItsOwn(run))
      /\ sessions \in Seq({"tree", "here"})
  BY <1>1, RunningIsRight
<1>3. run.route = "http" /\ run.at \in {1, 2} /\ Len(RouteOf(run.route).steps) = 3
  <2>1. run.route \in Providers /\ Here(run) \in StepsOf(run.route) BY <1>2, StepHere
  <2>2. run.route = "http" BY <1>1, <2>1 DEF StepsOf, Providers
  <2>3. Len(RouteOf(run.route).steps) = 3 /\ RouteOf(run.route).steps[3] = "body" BY <2>1, <2>2, RoutesAre
  <2>4. run.at # 3 BY <1>1, <2>3 DEF Here
  <2>5. run.at \in 1 .. 3 BY <1>2, <2>3
  <2>6. QED BY <2>2, <2>3, <2>4, <2>5
<1>4. /\ k \in OfARun /\ k.held = run.held \ {"timer"} /\ k.speaks = run.speaks /\ k.route = run.route /\ k.asked = run.asked
      /\ k.at = run.at + 1 /\ k.late = run.late /\ k.stops = run.stops /\ k.gives = run.gives /\ k.cleared = run.cleared
      /\ k.ended = run.ended /\ k.status = run.status /\ k.answered \in AnswersOf(k.route)
  <2>1. run.at + 1 \in Nat \ {0} BY <1>3
  <2>2. (IF ok THEN "ok" ELSE "refused") \in {"ok", "refused"} OBVIOUS
  <2>3. AnswersOf(run.route) = {"no", "ok", "refused"} BY <1>3 DEF AnswersOf
  <2>4. QED BY <1>2, <2>1, <2>2, <2>3 DEF OfARun
<1> HIDE DEF k
<1>5. sessions' = sessions /\ SessionsGrow BY <1>1, <1>2, SessionsStay
<1>6. k.at \in 1 .. 3 /\ k.at # 1 /\ ~(k.at > 7) BY <1>3, <1>4
<1>7. SpeaksIn(k, sessions, saved) BY <1>3, <1>4, <1>2, <1>6 DEF Namer, Sayers, SpeaksIn, Cwd
<1>8. ~LateFailures => k.held \subseteq Holdable(k.route) BY <1>2, <1>4 DEF HoldsItsOwn
<1>9. QED BY <1>1, <1>2, <1>3, <1>4, <1>5, <1>6, <1>7, <1>8, GoesOnAs

\* The time is up.
LEMMA TimerFiresStays ==
    ASSUME ExecInv, NEW i \in DOMAIN runs, TimerFires(i)
    PROVE  ExecInv'
<1> DEFINE run == runs[i]
           h == Hears(run, "timeout")
<1>1. Running(i) /\ Change(i, h) /\ UNCHANGED sessions BY DEF TimerFires
<1>2. /\ RunIsRight(run, sessions, saved) /\ run.ended = "no" /\ sessions \in Seq({"tree", "here"})
      /\ aborted /\ "listener" \in run.held => \E n \in DOMAIN run.stops : run.stops[n] = "aborted"
  BY <1>1, RunningIsRight
<1>3. "timeout" \in Stops BY DEF Stops
<1>4. /\ RunIsRight(h, sessions, saved) /\ h.ended = run.ended /\ h.held = run.held
      /\ \A n \in DOMAIN run.stops : \E m \in DOMAIN h.stops : h.stops[m] = run.stops[n]
  BY <1>2, <1>3, HearsRight
<1>5. sessions' = sessions /\ SessionsGrow BY <1>1, <1>2, SessionsStay
<1> HIDE DEF h
<1>6. aborted /\ "listener" \in h.held => \E n \in DOMAIN h.stops : h.stops[n] = "aborted" BY <1>2, <1>4
<1>7. QED BY <1>1, <1>2, <1>4, <1>5, <1>6, OneGoesOn

-----------------------------------------------------------------------------
(* Executions: every way to end                                            *)

\* What is known where a run may end.
LEMMA MayEnd ==
    ASSUME ExecInv, NEW i \in DOMAIN runs, Running(i)
    PROVE  /\ runs[i].speaks \in 0 .. Len(sessions) /\ runs[i].speaks \in Nat
           /\ (runs[i].speaks # 0 /\ runs[i].route # "http" => sessions[runs[i].speaks] = Cwd(runs[i]))
           /\ runs[i].route = "http" => ~runs[i].cleared
           /\ Here(runs[i]) = "turn" => runs[i].speaks # 0 /\ (runs[i].cleared => runs[i].speaks # saved)
           /\ Here(runs[i]) = "child" /\ (runs[i].route = "pi" \/ "process" \in runs[i].held) =>
                  runs[i].speaks # 0 /\ (runs[i].cleared => runs[i].speaks # saved)
           /\ Here(runs[i]) = "turn" => runs[i].route \in {"codex skills", "codex tier", "antigravity"}
           /\ Here(runs[i]) = "child" => runs[i].route \in Sayers \cup {"pi"}
<1> DEFINE run == runs[i]
<1>1. /\ run \in OfARun /\ run.ended = "no" /\ SpeaksIn(run, sessions, saved)
      /\ run.at \in 1 .. Len(RouteOf(run.route).steps)
  BY RunningIsRight
<1>2. run.route \in Providers /\ Here(run) \in StepsOf(run.route) /\ Placed(run.route, run.at, Here(run))
  BY <1>1, StepHere
<1>3. Here(run) = "turn" => run.route \in {"codex skills", "codex tier", "antigravity"}
  BY <1>2 DEF StepsOf, Providers
<1>4. Here(run) = "child" => run.route \in Sayers \cup {"pi"} BY <1>2 DEF StepsOf, Providers, Sayers
<1>5. /\ Here(run) = "turn" => run.at > Namer(run.route)
      /\ run.route = "pi" /\ Here(run) = "child" => run.at > Namer(run.route)
  BY <1>2 DEF Placed
<1>6. "pi" \notin Sayers /\ {"codex skills", "codex tier", "antigravity"} \cap Sayers = {} /\ run.speaks \in Nat
  BY <1>1 DEF Sayers, OfARun
<1>7. Here(run) = "turn" => run.speaks # 0 /\ (run.cleared => run.speaks # saved)
  BY <1>1, <1>3, <1>5, <1>6 DEF SpeaksIn
<1>8. Here(run) = "child" /\ (run.route = "pi" \/ "process" \in run.held) =>
          run.speaks # 0 /\ (run.cleared => run.speaks # saved)
  BY <1>1, <1>4, <1>5, <1>6 DEF SpeaksIn
<1>9. QED BY <1>1, <1>3, <1>4, <1>6, <1>7, <1>8 DEF SpeaksIn

\* A run that ends with a status that fits, in the session it spoke in or none.
LEMMA EndsAs ==
    ASSUME ExecInv, NEW i \in DOMAIN runs, Running(i), UNCHANGED sessions,
           NEW r \in OfARun, r.route = runs[i].route, r.asked = runs[i].asked, r.at = runs[i].at,
           ~LateFailures => r.held = runs[i].held,
           Here(runs[i]) \in {"child", "turn"} \/ runs[i].route \in {"codex skills", "codex tier", "http"} \/ runs[i].at = 1,
           StatusFits(r), r.speaks = runs[i].speaks, r.cleared = runs[i].cleared,
           r.gives = 0 \/ (r.gives = runs[i].speaks /\ (runs[i].cleared => runs[i].speaks # saved)),
           r.status = "completed" => r.gives # 0, Returns(i, r)
    PROVE  ExecInv'
<1>1. /\ runs[i].speaks \in 0 .. Len(sessions)
      /\ (runs[i].speaks # 0 /\ runs[i].route # "http" => sessions[runs[i].speaks] = Cwd(runs[i]))
      /\ runs[i].route = "http" => ~runs[i].cleared
  BY MayEnd
<1>2. sessions' = sessions /\ SessionsGrow BY SessionsStay, RunningIsRight
<1>3. SessionFits(r, sessions') BY <1>1, <1>2 DEF SessionFits, Cwd
<1>4. QED BY <1>2, <1>3, EndsRight

\* A status of the table of its route fits.
LEMMA ToldStatusFits ==
    ASSUME NEW run \in OfARun, StopsItHeard(run), NEW how \in {"completed", "failed"},
           run.route = "http" /\ run.answered = "refused" => how = "failed",
           NEW r, r.status = Told(run, how), r.stops = run.stops, r.answered = run.answered, r.route = run.route,
           r.late = run.late
    PROVE  StatusFits(r) /\ r.status \in Statuses /\ (r.status = "completed" => how = "completed")
<1>1. /\ Told(run, how) \in Statuses \ {"none"}
      /\ Told(run, how) = "completed" => how = "completed" /\ run.stops = << >>
      /\ Told(run, how) \in {"aborted", "timeout"} => \E n \in DOMAIN run.stops : run.stops[n] = Told(run, how)
      /\ run.stops # << >> /\ run.answered # "refused" =>
             /\ \E n \in DOMAIN run.stops : run.stops[n] = Told(run, how)
             /\ run.route \in {"codex skills", "antigravity"} => Told(run, how) = run.stops[1]
  BY ToldFits
<1>2. QED BY <1>1 DEF StatusFits, StopsItHeard

\* A child ends.
LEMMA ChildEndsStays ==
    ASSUME ExecInv, NEW i \in DOMAIN runs, NEW how \in Hows, NEW heard \in BOOLEAN, ChildEnds(i, how, heard)
    PROVE  ExecInv'
<1> DEFINE run == runs[i]
           r == [run EXCEPT !.status = Told(run, how), !.gives = Gives(run, heard)]
<1>1. /\ Running(i) /\ Here(run) = "child" /\ "process" \in run.held /\ (how = "completed" => heard)
      /\ Returns(i, r) /\ UNCHANGED sessions
  BY DEF ChildEnds
<1>2. run \in OfARun /\ StopsItHeard(run) BY <1>1, RunningIsRight
<1>3. /\ run.speaks # 0 /\ (run.cleared => run.speaks # saved) /\ run.speaks \in Nat
      /\ run.route \in Sayers \cup {"pi"}
  BY <1>1, MayEnd
<1>4. Gives(run, heard) \in {0, run.speaks} /\ (heard => Gives(run, heard) = run.speaks) BY DEF Gives
<1>5. run.route # "http" /\ how \in {"completed", "failed"} BY <1>3 DEF Sayers, Hows
<1>6. Told(run, how) \in Statuses BY <1>2, <1>5, ToldFits
<1>7. /\ r \in OfARun /\ r.held = run.held /\ r.speaks = run.speaks /\ r.route = run.route /\ r.asked = run.asked
      /\ r.at = run.at /\ r.late = run.late /\ r.stops = run.stops /\ r.gives = Gives(run, heard) /\ r.cleared = run.cleared
      /\ r.answered = run.answered /\ r.status = Told(run, how)
  <2>1. Gives(run, heard) \in Nat BY <1>3, <1>4
  <2>2. QED BY <1>2, <1>6, <2>1 DEF OfARun
<1> HIDE DEF r
<1>8. StatusFits(r) /\ (r.status = "completed" => how = "completed") BY <1>2, <1>5, <1>7, ToldStatusFits
<1>9. QED BY <1>1, <1>3, <1>4, <1>7, <1>8, EndsAs

\* A run with a service tier ends before it prepares.
LEMMA CancelledBeforeStays ==
    ASSUME ExecInv, NEW i \in DOMAIN runs, CancelledBefore(i)
    PROVE  ExecInv'
<1> DEFINE run == runs[i]
           r == [run EXCEPT !.status = Told(run, "failed")]
<1>1. Running(i) /\ run.route = "codex tier" /\ Returns(i, r) /\ UNCHANGED sessions
  BY DEF CancelledBefore, Prepares
<1>2. run \in OfARun /\ StopsItHeard(run) /\ run.gives = 0 BY <1>1, RunningIsRight
<1>3. Told(run, "failed") \in Statuses BY <1>2, ToldFits
<1>4. /\ r \in OfARun /\ r.held = run.held /\ r.speaks = run.speaks /\ r.route = run.route /\ r.asked = run.asked
      /\ r.at = run.at /\ r.late = run.late /\ r.stops = run.stops /\ r.gives = 0 /\ r.cleared = run.cleared
      /\ r.answered = run.answered /\ r.status = Told(run, "failed")
  BY <1>2, <1>3 DEF OfARun
<1> HIDE DEF r
<1>5. StatusFits(r) /\ (r.status = "completed" => "failed" = "completed") BY <1>2, <1>4, ToldStatusFits
<1>6. QED BY <1>1, <1>4, <1>5, EndsAs

\* A child that is not started for an aborted run.
LEMMA NeverStartedStays ==
    ASSUME ExecInv, NEW i \in DOMAIN runs, NeverStarted(i)
    PROVE  ExecInv'
<1> DEFINE run == runs[i]
           gives == IF run.route = "pi" THEN run.speaks ELSE 0
           r == [run EXCEPT !.late = TRUE, !.stops = <<"aborted">>, !.status = "aborted", !.gives = gives]
<1>1. Running(i) /\ run \in OfARun /\ StopsItHeard(run) /\ run.at \in 1 .. Len(RouteOf(run.route).steps)
  BY RunningIsRight DEF NeverStarted
<1>2. Here(run) = "child" /\ Returns(i, r) /\ UNCHANGED sessions
  <2> DEFINE k == [run EXCEPT !.late = TRUE, !.stops = <<"aborted">>]
  <2>1. k.route = run.route /\ k.at = run.at /\ k.speaks = run.speaks BY <1>1 DEF OfARun
  <2>2. /\ Here(k) = "child" /\ UNCHANGED sessions
        /\ Returns(i, [k EXCEPT !.status = "aborted", !.gives = IF k.route = "pi" THEN k.speaks ELSE 0])
    BY DEF NeverStarted
  <2>3. [k EXCEPT !.status = "aborted", !.gives = gives] = r BY <1>1 DEF OfARun
  <2> HIDE DEF k, r
  <2>4. QED BY <2>1, <2>2, <2>3 DEF Here
<1>3. /\ run.speaks \in Nat /\ (run.route = "pi" /\ run.cleared => run.speaks # saved)
      /\ run.route \in Sayers \cup {"pi"}
  BY <1>1, <1>2, MayEnd
<1>4. <<"aborted">> \in Seq(Stops) /\ <<"aborted">> # << >> /\ 1 \in DOMAIN <<"aborted">> /\ <<"aborted">>[1] = "aborted"
  BY DEF Stops
<1>5. /\ r \in OfARun /\ r.held = run.held /\ r.speaks = run.speaks /\ r.route = run.route /\ r.asked = run.asked
      /\ r.at = run.at /\ r.late = TRUE /\ r.stops = <<"aborted">> /\ r.gives = gives /\ r.cleared = run.cleared
      /\ r.answered = run.answered /\ r.status = "aborted"
  BY <1>1, <1>3, <1>4 DEF OfARun, Statuses
<1> HIDE DEF r
<1>6. StatusFits(r) BY <1>1, <1>4, <1>5 DEF StatusFits, StopsItHeard
<1>7. r.gives = 0 \/ (r.gives = run.speaks /\ (run.cleared => run.speaks # saved)) BY <1>3, <1>5
<1>8. QED BY <1>1, <1>2, <1>5, <1>6, <1>7, EndsAs

\* An app-server's turn ends.
LEMMA AppServerEndsStays ==
    ASSUME ExecInv, NEW i \in DOMAIN runs, AppServerEnds(i)
    PROVE  ExecInv'
<1> DEFINE run == runs[i]
           r == [run EXCEPT !.status = FirstStop(run, run.answered), !.gives = run.speaks]
<1>1. /\ Running(i) /\ run.route = "codex skills" /\ Here(run) = "turn" /\ (run.answered # "no" \/ run.stops # << >>)
      /\ Returns(i, r) /\ UNCHANGED sessions
  BY DEF AppServerEnds
<1>2. run \in OfARun /\ StopsItHeard(run) /\ run.answered \in AnswersOf(run.route) BY <1>1, RunningIsRight
<1>3. run.speaks # 0 /\ (run.cleared => run.speaks # saved) /\ run.speaks \in Nat BY <1>1, MayEnd
<1>4. \E how \in Hows : FirstStop(run, run.answered) = FirstStop(run, how) /\ Told(run, how) = FirstStop(run, how)
  <2>1. run.answered \in {"no", "completed", "failed"} BY <1>1, <1>2 DEF AnswersOf
  <2>2. CASE run.answered = "no" BY <1>1, <2>2 DEF FirstStop, Told, Hows
  <2>3. CASE run.answered # "no" BY <1>1, <2>1, <2>3 DEF Told, Hows
  <2>4. QED BY <2>2, <2>3
<1>5. PICK how \in Hows : FirstStop(run, run.answered) = Told(run, how) BY <1>4
<1>6. how \in {"completed", "failed"} /\ run.route # "http" BY <1>1 DEF Hows
<1>7. Told(run, how) \in Statuses BY <1>2, <1>6, ToldFits
<1>8. /\ r \in OfARun /\ r.held = run.held /\ r.speaks = run.speaks /\ r.route = run.route /\ r.asked = run.asked
      /\ r.at = run.at /\ r.late = run.late /\ r.stops = run.stops /\ r.gives = run.speaks /\ r.cleared = run.cleared
      /\ r.answered = run.answered /\ r.status = Told(run, how)
  BY <1>2, <1>3, <1>5, <1>7 DEF OfARun
<1> HIDE DEF r
<1>9. StatusFits(r) BY <1>2, <1>6, <1>8, ToldStatusFits
<1>10. QED BY <1>1, <1>3, <1>8, <1>9, EndsAs

\* The turn of a run with a service tier ends.
LEMMA TierEndsStays ==
    ASSUME ExecInv, NEW i \in DOMAIN runs, NEW how \in Hows, TierEnds(i, how)
    PROVE  ExecInv'
<1> DEFINE run == runs[i]
           r == [run EXCEPT !.status = TierStatus(run, how), !.gives = run.speaks]
<1>1. Running(i) /\ run.route = "codex tier" /\ Here(run) = "turn" /\ Returns(i, r) /\ UNCHANGED sessions
  BY DEF TierEnds
<1>2. run \in OfARun /\ StopsItHeard(run) BY <1>1, RunningIsRight
<1>3. run.speaks # 0 /\ (run.cleared => run.speaks # saved) /\ run.speaks \in Nat BY <1>1, MayEnd
<1>4. how \in {"completed", "failed"} /\ run.route # "http" /\ Told(run, how) = TierStatus(run, how)
  BY <1>1 DEF Hows, Told
<1>5. Told(run, how) \in Statuses BY <1>2, <1>4, ToldFits
<1>6. /\ r \in OfARun /\ r.held = run.held /\ r.speaks = run.speaks /\ r.route = run.route /\ r.asked = run.asked
      /\ r.at = run.at /\ r.late = run.late /\ r.stops = run.stops /\ r.gives = run.speaks /\ r.cleared = run.cleared
      /\ r.answered = run.answered /\ r.status = Told(run, how)
  BY <1>2, <1>3, <1>4, <1>5 DEF OfARun
<1> HIDE DEF r
<1>7. StatusFits(r) BY <1>2, <1>4, <1>6, ToldStatusFits
<1>8. QED BY <1>1, <1>3, <1>6, <1>7, EndsAs

\* agy has exited.
LEMMA AgyEndsStays ==
    ASSUME ExecInv, NEW i \in DOMAIN runs, NEW heard \in BOOLEAN, AgyEnds(i, heard)
    PROVE  ExecInv'
<1> DEFINE run == runs[i]
           resumes == Resumes([run EXCEPT !.cleared = FALSE])
           known == IF heard THEN run.speaks ELSE IF resumes THEN saved ELSE 0
           how == IF run.answered = "no" THEN "failed" ELSE run.answered
           r == [run EXCEPT !.status = FirstStop(run, how), !.speaks = known, !.gives = known, !.cleared = run.cleared /\ heard]
<1>1. /\ Running(i) /\ run.route = "antigravity" /\ Here(run) = "turn" /\ (run.answered # "no" => heard)
      /\ Returns(i, r) /\ UNCHANGED sessions
  BY DEF AgyEnds
<1>2. /\ run \in OfARun /\ StopsItHeard(run) /\ run.answered \in AnswersOf(run.route)
      /\ saved \in 0 .. Len(sessions) /\ Len(sessions) \in Nat /\ sessions \in Seq({"tree", "here"})
  BY <1>1, RunningIsRight
<1>3. /\ run.speaks # 0 /\ (run.cleared => run.speaks # saved) /\ run.speaks \in 0 .. Len(sessions)
      /\ sessions[run.speaks] = Cwd(run)
  BY <1>1, MayEnd
<1>4. /\ how \in {"completed", "failed"} /\ (how = "completed" => heard) /\ Told(run, how) = FirstStop(run, how)
      /\ run.route # "http"
  BY <1>1, <1>2 DEF AnswersOf, Told
<1>5. resumes => saved # 0 /\ sessions[saved] = Cwd(run)
  <2> DEFINE k == [run EXCEPT !.cleared = FALSE]
  <2>1. k.route = run.route /\ k.asked = run.asked BY <1>2 DEF OfARun
  <2>2. Resumes(k) => saved # 0 /\ (k.route = "http" \/ sessions[saved] = Cwd(k)) BY DEF Resumes
  <2> HIDE DEF k
  <2>3. Cwd(k) = Cwd(run) BY <2>1 DEF Cwd
  <2>4. QED BY <1>1, <2>1, <2>2, <2>3 DEF k
<1> HIDE DEF resumes
<1>6. /\ known \in 0 .. Len(sessions) /\ known \in Nat /\ (known # 0 => sessions[known] = Cwd(run)) /\ (heard => known = run.speaks)
  BY <1>2, <1>3, <1>5
<1>7. Told(run, how) \in Statuses BY <1>2, <1>4, ToldFits
<1>8. run.cleared \in BOOLEAN BY <1>2 DEF OfARun
<1> HIDE DEF known, how
<1>9. /\ r \in OfARun /\ r.held = run.held /\ r.speaks = known /\ r.route = run.route /\ r.asked = run.asked
      /\ r.at = run.at /\ r.late = run.late /\ r.stops = run.stops /\ r.gives = known /\ r.cleared = (run.cleared /\ heard)
      /\ r.answered = run.answered /\ r.status = Told(run, how)
  BY <1>2, <1>4, <1>6, <1>7, <1>8 DEF OfARun
<1> HIDE DEF r
<1>10. StatusFits(r) /\ (r.status = "completed" => how = "completed") BY <1>2, <1>4, <1>9, ToldStatusFits
<1>11. sessions' = sessions /\ SessionsGrow BY <1>1, <1>2, SessionsStay
<1>12. SessionFits(r, sessions') BY <1>9, <1>3, <1>4, <1>6, <1>10, <1>8, <1>1, <1>11 DEF Cwd, SessionFits
<1>13. QED BY <1>1, <1>9, <1>10, <1>11, <1>12, EndsRight

\* The fetch of an HTTP agent ends.
LEMMA HttpEndsStays ==
    ASSUME ExecInv, NEW i \in DOMAIN runs, NEW how \in Hows, NEW s, HttpEnds(i, how, s)
    PROVE  ExecInv'
<1> DEFINE run == runs[i]
           key == IF Resumes(run) THEN saved ELSE 0
           r == [run EXCEPT !.status = Told(run, how), !.speaks = s, !.gives = s]
<1>1. /\ Running(i) /\ run.route = "http"
      /\ (run.answered = "refused" => how = "failed")
      /\ IF how = "completed" THEN Speaks(run, s) ELSE s = key /\ UNCHANGED sessions
      /\ Returns(i, r)
  BY DEF HttpEnds
<1>2. /\ run \in OfARun /\ StopsItHeard(run)
      /\ saved \in 0 .. Len(sessions) /\ Len(sessions) \in Nat /\ sessions \in Seq({"tree", "here"})
  BY <1>1, RunningIsRight
<1>3. ~run.cleared BY <1>1, MayEnd
<1>4. SessionsGrow /\ s \in 0 .. Len(sessions') /\ (how = "completed" => s # 0)
  <2>1. CASE how = "completed" BY <1>1, <1>2, <2>1, SpeaksRight
  <2>2. CASE how # "completed" BY <1>1, <1>2, <2>2, SessionsStay
  <2>3. QED BY <2>1, <2>2
<1>5. how \in {"completed", "failed"} BY DEF Hows
<1>6. Told(run, how) \in Statuses BY <1>1, <1>2, <1>5, ToldFits
<1>7. /\ r \in OfARun /\ r.held = run.held /\ r.speaks = s /\ r.route = run.route /\ r.asked = run.asked
      /\ r.at = run.at /\ r.late = run.late /\ r.stops = run.stops /\ r.gives = s /\ r.cleared = run.cleared
      /\ r.answered = run.answered /\ r.status = Told(run, how)
  <2>1. s \in Nat BY <1>4
  <2>2. QED BY <1>2, <1>6, <2>1 DEF OfARun
<1> HIDE DEF r
<1>8. StatusFits(r) /\ (r.status = "completed" => how = "completed") BY <1>1, <1>2, <1>5, <1>7, ToldStatusFits
<1>9. SessionFits(r, sessions') BY <1>1, <1>3, <1>4, <1>7, <1>8 DEF SessionFits
<1>10. QED BY <1>1, <1>4, <1>7, <1>8, <1>9, EndsRight

\* A step that is ignored when it fails names no session; what is thrown leaves nothing where
\* nothing fails late.
LEMMA FailsStays ==
    ASSUME ExecInv, NEW i \in DOMAIN runs, NEW fate \in {"ignored", "thrown", "result"},
           NEW remains \in SUBSET {"remains"}, Fails(i, fate, remains)
    PROVE  ExecInv'
<1> DEFINE run == runs[i]
           more == [run EXCEPT !.held = run.held \cup remains]
           left == IF Here(run) \in RouteOf(run.route).cleaned THEN more.held \ {"workspace"} ELSE more.held
<1>1. Running(i) /\ fate \in Fates(run) /\ remains \in Remains(run) BY DEF Fails, Prepares
<1>2. /\ run \in OfARun /\ StopsItHeard(run) /\ SpeaksIn(run, sessions, saved) /\ run.gives = 0 /\ run.status = "none"
      /\ run.at \in 1 .. Len(RouteOf(run.route).steps) /\ run.ended = "no" /\ sessions \in Seq({"tree", "here"})
      /\ (aborted /\ "listener" \in run.held => \E n \in DOMAIN run.stops : run.stops[n] = "aborted")
      /\ saved \in 0 .. Len(sessions)
  BY <1>1, RunningIsRight
<1>3. /\ more \in OfARun /\ more.held = run.held \cup remains /\ more.route = run.route /\ more.asked = run.asked
      /\ more.at = run.at /\ more.late = run.late /\ more.stops = run.stops /\ more.speaks = run.speaks
      /\ more.gives = run.gives /\ more.cleared = run.cleared /\ more.answered = run.answered
      /\ more.ended = run.ended /\ more.status = run.status
  BY <1>2 DEF OfARun
<1>4. Here(more) = Here(run) /\ Finally(more) = Finally(run) BY <1>3 DEF Here, Finally
<1>5. /\ Here(run) \notin Works \cup {"guards", "process"}
      /\ LateFailures \/ (remains = {} /\ (fate = "thrown" => left \subseteq Finally(run)))
      /\ CASE fate = "ignored" -> Change(i, [more EXCEPT !.at = Following(more, more.at)])
           [] fate = "thrown" -> Threw(i, [more EXCEPT !.held = left])
           [] OTHER -> Returns(i, [more EXCEPT !.status = Told(more, "failed")])
      /\ sessions' = sessions
  <2> HIDE DEF more
  <2>1. /\ Here(more) \notin Works \cup {"guards", "process"}
        /\ LateFailures \/ (remains = {} /\ (fate = "thrown" =>
               (IF Here(more) \in RouteOf(more.route).cleaned THEN more.held \ {"workspace"} ELSE more.held) \subseteq Finally(more)))
        /\ CASE fate = "ignored" -> Change(i, [more EXCEPT !.at = Following(more, more.at)])
             [] fate = "thrown" -> Threw(i, [more EXCEPT !.held =
                    IF Here(more) \in RouteOf(more.route).cleaned THEN more.held \ {"workspace"} ELSE more.held])
             [] OTHER -> Returns(i, [more EXCEPT !.status = Told(more, "failed")])
        /\ UNCHANGED sessions
    BY DEF Fails, more
  <2>2. left = IF Here(more) \in RouteOf(more.route).cleaned THEN more.held \ {"workspace"} ELSE more.held
    BY <1>3, <1>4
  <2> HIDE DEF left
  <2>3. QED BY <1>4, <2>1, <2>2
<1>6. sessions' = sessions /\ SessionsGrow BY <1>2, <1>5, SessionsStay
<1>7. CASE fate = "ignored"
  <2> DEFINE next == Advanced(run, remains)
  <2>1. next = [more EXCEPT !.at = Following(more, more.at)]
    <3>1. Following(more, more.at) = Following(run, run.at)
      <4> HIDE DEF more
      <4>1. QED BY <1>3 DEF Following
    <3>2. QED BY <1>2, <3>1 DEF Advanced, OfARun
  <2>2. Here(run) \notin {"session", "process", "file"}
    <3>1. Here(run) # "session" BY <1>1, <1>7 DEF Fates, StartFates
    <3>2. Here(run) # "file"
      <4>1. ASSUME Here(run) = "file" PROVE FALSE
        <5>1. "ignored" \in RouteOf(run.route).ignored \/ "file" \in RouteOf(run.route).ignored
          BY <1>1, <1>7, <4>1 DEF Fates
        <5>2. RouteOf(run.route).ignored \in {{"skills"}, {}}
          BY DEF RouteOf, Route, Claude, CodexExec, CodexAppServer, CodexTier, Cursor, OpenCode, Pi, Antigravity, HttpAgent
        <5>3. QED BY <5>1, <5>2
      <4>2. QED BY <4>1
    <3>3. QED BY <1>5, <3>1, <3>2
  <2>3. remains \subseteq Stages(runs[i]) \/ (LateFailures /\ remains \subseteq {"remains"}) BY <1>5
  <2>4. Here(runs[i]) \notin Works \cup {"session", "process", "file"} /\ Here(runs[i]) \notin Works
    BY <1>5, <2>2
  <2>5. next = Advanced(runs[i], remains) OBVIOUS
  <2>6. Change(i, next) BY <1>5, <1>7, <2>1
  <2> HIDE DEF next
  <2>7. RunIsRight(next, sessions, saved) BY <1>1, <2>3, <2>4, <2>5, SpeaksOn
  <2>8. /\ next.stops = runs[i].stops /\ next.ended = "no"
        /\ Here(runs[i]) # "guards" /\ "listener" \in next.held => "listener" \in runs[i].held
    BY <1>1, <2>3, <2>4, <2>5, StepGoesOn
  <2>9. aborted /\ "listener" \in next.held => \E n \in DOMAIN next.stops : next.stops[n] = "aborted"
    BY <1>2, <1>5, <2>8
  <2>10. QED BY <1>1, <1>6, <2>6, <2>7, <2>8, <2>9, OneGoesOn
<1>8. CASE fate = "thrown"
  <2> DEFINE r == [more EXCEPT !.held = left]
             over == [r EXCEPT !.held = r.held \ Finally(runs[i]), !.ended = "thrown"]
  <2>1. Threw(i, r) BY <1>5, <1>8
  <2>2. left \subseteq more.held OBVIOUS
  <2> HIDE DEF more, left
  <2>3. /\ r \in OfARun /\ r.held = left /\ r.route = run.route /\ r.asked = run.asked
        /\ r.at = run.at /\ r.late = run.late /\ r.stops = run.stops /\ r.speaks = run.speaks
        /\ r.gives = run.gives /\ r.cleared = run.cleared /\ r.answered = run.answered
        /\ r.ended = run.ended /\ r.status = run.status
    BY <1>3, <2>2 DEF OfARun
  <2> HIDE DEF r
  <2>4. /\ over \in OfARun /\ over.held = left \ Finally(run) /\ over.route = run.route /\ over.asked = run.asked
        /\ over.at = run.at /\ over.late = run.late /\ over.stops = run.stops /\ over.speaks = run.speaks
        /\ over.gives = run.gives /\ over.cleared = run.cleared /\ over.answered = run.answered
        /\ over.ended = "thrown" /\ over.status = run.status
    BY <2>3 DEF OfARun
  <2>5. ~LateFailures => over.held = {} BY <1>5, <1>8, <2>4
  <2>6. over = [r EXCEPT !.held = r.held \ Finally(runs[i]), !.ended = "thrown"] OBVIOUS
  <2> HIDE DEF over
  <2>7. ~LateFailures => HoldsItsOwn(over) BY <2>4, <2>5 DEF HoldsItsOwn
  <2>8. StopsItHeard(over) BY <1>2, <2>4 DEF StopsItHeard
  <2>9. SpeaksIn(over, sessions, saved) BY <1>2, <2>4 DEF SpeaksIn, Cwd
  <2>10. RunIsRight(over, sessions, saved) BY <1>2, <2>4, <2>7, <2>8, <2>9 DEF RunIsRight
  <2>11. RunIsRight([r EXCEPT !.held = r.held \ Finally(runs[i]), !.ended = "thrown"], sessions, saved)
    BY <2>6, <2>10
  <2>12. QED BY <1>1, <1>2, <1>5, <2>1, <2>3, <2>11, OneThrows
<1>9. CASE fate = "result"
  <2> DEFINE r == [more EXCEPT !.status = Told(more, "failed")]
  <2>1. Returns(i, r) BY <1>5, <1>9
  <2> HIDE DEF more
  <2>2. StopsItHeard(more) BY <1>2, <1>3 DEF StopsItHeard
  <2>3. Told(more, "failed") \in Statuses BY <1>3, ToldFits
  <2>4. /\ r \in OfARun /\ r.held = run.held \cup remains /\ r.route = run.route /\ r.asked = run.asked
        /\ r.at = run.at /\ r.late = more.late /\ r.stops = more.stops /\ r.speaks = run.speaks
        /\ r.gives = 0 /\ r.cleared = run.cleared /\ r.answered = more.answered
        /\ r.route = more.route /\ r.status = Told(more, "failed")
    BY <1>2, <1>3, <2>3 DEF OfARun
  <2> HIDE DEF r
  <2>5. StatusFits(r) /\ (r.status = "completed" => "failed" = "completed") BY <1>3, <2>2, <2>4, ToldStatusFits
  <2>6. run.route \in {"codex skills", "codex tier"} \/ run.at = 1
    <3>1. "result" \in Fates(run) /\ Here(run) \notin Works BY <1>1, <1>5, <1>9
    <3>2. QED BY <1>2, <3>1, ResultsOfSteps
  <2>7. ~LateFailures => r.held = runs[i].held BY <1>5, <2>4
  <2>8. QED BY <1>1, <1>5, <2>1, <2>4, <2>5, <2>6, <2>7, EndsAs
<1>10. QED BY <1>7, <1>8, <1>9

\* The host aborts the signal of all.
LEMMA HostCancelsStays ==
    ASSUME ExecInv, HostCancels
    PROVE  ExecInv'
<1>1. /\ runs' = [i \in DOMAIN runs |-> Hears(runs[i], "aborted")] /\ aborted' = TRUE /\ batch' = batch
      /\ sessions' = sessions /\ saved' = saved
  BY DEF HostCancels
<1>2. /\ runs \in Seq(OfARun) /\ BatchIsWhole /\ \A i \in DOMAIN runs : RunIsRight(runs[i], sessions, saved)
  BY DEF ExecInv
<1>3. "aborted" \in Stops /\ "aborted" # "timeout" BY DEF Stops
<1>4. ASSUME NEW i \in DOMAIN runs
      PROVE  /\ RunIsRight(runs'[i], sessions, saved) /\ runs'[i] \in OfARun /\ runs'[i].ended = runs[i].ended
             /\ runs'[i].status = runs[i].status /\ runs'[i].held = runs[i].held
             /\ runs[i].ended = "no" /\ "listener" \in runs[i].held => Contains(runs'[i].stops, "aborted")
  <2>1. runs'[i] = Hears(runs[i], "aborted") BY <1>1
  <2>2. /\ RunIsRight(runs'[i], sessions, saved) /\ runs'[i].ended = runs[i].ended
        /\ runs'[i].status = runs[i].status /\ runs'[i].held = runs[i].held
        /\ runs[i].ended = "no" /\ "listener" \in runs[i].held =>
               \E n \in DOMAIN runs'[i].stops : runs'[i].stops[n] = "aborted"
    BY <1>2, <1>3, <2>1, HearsRight
  <2>3. runs'[i] \in OfARun BY <2>2 DEF RunIsRight
  <2>4. QED BY <2>2, <2>3, HasHeardOf
<1>5. DOMAIN runs' = DOMAIN runs BY <1>1
<1>6. runs' \in Seq(OfARun) BY <1>2, <1>1, <1>4
<1>7. BatchIsWhole' BY <1>1, <1>2, <1>4, <1>5 DEF BatchIsWhole, Running
<1>8. QED BY <1>1, <1>4, <1>5, <1>6, <1>7 DEF ExecInv

\* A run that begins, in whatever session.
LEMMA NewIsRight ==
    ASSUME NEW p \in Providers, NEW asked \in SUBSET Optional, NEW timed \in BOOLEAN,
           NEW ss \in Seq({"tree", "here"}), NEW sv \in Nat
    PROVE  /\ RunIsRight(NewRun(p, asked, timed), ss, sv) /\ NewRun(p, asked, timed).ended = "no"
           /\ NewRun(p, asked, timed).status = "none" /\ NewRun(p, asked, timed).held = {}
<1> DEFINE z == [route |-> p, asked |-> asked, timed |-> timed, at |-> 0, held |-> {}, stops |-> << >>, late |-> FALSE,
                 answered |-> "no", speaks |-> 0, gives |-> 0, cleared |-> FALSE, ended |-> "no", status |-> "none"]
           y == [route |-> p, asked |-> asked, timed |-> timed, at |-> 1, held |-> {}, stops |-> << >>, late |-> FALSE,
                 answered |-> "no", speaks |-> 0, gives |-> 0, cleared |-> FALSE, ended |-> "no", status |-> "none"]
           n == NewRun(p, asked, timed)
<1>1. n = [z EXCEPT !.at = Following(z, 0)] BY DEF NewRun
<1>2. y \in OfARun /\ y.route = p /\ y.asked = asked BY DEF OfARun, Statuses
<1>3. Following(z, 0) = Following(y, 0) BY DEF Following
<1>4. /\ Following(y, 0) \in 0 + 1 .. Len(RouteOf(p).steps)
      /\ 0 < Namer(p) => Following(y, 0) <= Namer(p)
  <2>1. Len(RouteOf(p).steps) \in 1 .. 7 BY RoutesAre
  <2> DEFINE len == Len(RouteOf(p).steps)
  <2>4. len \in 1 .. 7 BY <2>1
  <2> HIDE DEF len
  <2>5. 0 \in 0 .. len - 1 BY <2>4
  <2>2. 0 \in 0 .. Len(RouteOf(p).steps) - 1 BY <2>5 DEF len
  <2> HIDE DEF y
  <2>3. QED BY <1>2, <2>2, NextStep
<1> DEFINE f == Following(y, 0)
<1>5. Len(RouteOf(p).steps) \in Nat /\ Namer(p) \in {4, 5, 7} BY RoutesAre DEF Namer
<1>6. f \in Nat \ {0} /\ f \in 1 .. Len(RouteOf(p).steps) /\ f <= Namer(p) /\ ~(f > Namer(p)) BY <1>4, <1>5
<1> HIDE DEF f, n
<1>7. n = [route |-> p, asked |-> asked, timed |-> timed, at |-> f, held |-> {}, stops |-> << >>, late |-> FALSE,
           answered |-> "no", speaks |-> 0, gives |-> 0, cleared |-> FALSE, ended |-> "no", status |-> "none"]
  BY <1>1, <1>3 DEF f
<1>8. << >> \in Seq(Stops) /\ {} \subseteq {"tier", "workspace", "skills", "mcp", "process", "timer", "listener", "remains"}
  OBVIOUS
<1>9. /\ n \in OfARun /\ n.at = f /\ n.route = p /\ n.held = {} /\ n.stops = << >> /\ n.late = FALSE /\ n.answered = "no"
      /\ n.speaks = 0 /\ n.gives = 0 /\ n.cleared = FALSE /\ n.ended = "no" /\ n.status = "none"
  BY <1>6, <1>7, <1>8 DEF OfARun, Statuses
<1>10. HoldsItsOwn(n) BY <1>9 DEF HoldsItsOwn
<1>11. StopsItHeard(n) BY <1>9 DEF StopsItHeard, AnswersOf
<1>12. SpeaksIn(n, ss, sv) BY <1>6, <1>9 DEF SpeaksIn
<1>13. RunIsRight(n, ss, sv) BY <1>6, <1>9, <1>10, <1>11, <1>12 DEF RunIsRight
<1>14. QED BY <1>9, <1>13 DEF n

\* The host runs again, with the session that it was given.
LEMMA RunsAgainStays ==
    ASSUME ExecInv, RunsAgain
    PROVE  ExecInv'
<1> DEFINE last == runs[1]
<1>1. /\ Len(runs) = 1 /\ aborted' = FALSE /\ batch' = [batch EXCEPT !.made = batch.made + 1, !.settled = "pending"]
      /\ sessions' = sessions
      /\ saved' = IF last.gives # 0 THEN last.gives ELSE IF last.cleared THEN 0 ELSE saved
  BY DEF RunsAgain
<1>2. PICK asked \in {last.asked, last.asked \ {"workspace"}} : runs' = <<NewRun(last.route, asked, last.timed)>>
  BY DEF RunsAgain
<1>3. /\ runs \in Seq(OfARun) /\ 1 \in DOMAIN runs /\ sessions \in Seq({"tree", "here"}) /\ saved \in 0 .. Len(sessions)
      /\ batch \in [cancels : BOOLEAN, settled : {"pending", "resolved", "rejected"}, made : Nat]
  BY <1>1 DEF ExecInv
<1>4. last \in OfARun /\ SpeaksIn(last, sessions, saved) BY <1>3 DEF ExecInv, RunIsRight
<1>5. saved' \in 0 .. Len(sessions) /\ saved' \in Nat BY <1>4, <1>1, <1>3 DEF SpeaksIn
<1>6. last.route \in Providers /\ asked \in SUBSET Optional /\ last.timed \in BOOLEAN BY <1>2, <1>4 DEF OfARun
<1> DEFINE n == NewRun(last.route, asked, last.timed)
<1>7. RunIsRight(n, sessions, saved') /\ n.ended = "no" /\ n.status = "none" /\ n.held = {}
  <2>1. /\ RunIsRight(NewRun(last.route, asked, last.timed), sessions, saved')
        /\ NewRun(last.route, asked, last.timed).ended = "no"
        /\ NewRun(last.route, asked, last.timed).status = "none" /\ NewRun(last.route, asked, last.timed).held = {}
    <3> DEFINE p == last.route
               t == last.timed
               sv == saved'
    <3>1. p \in Providers /\ asked \in SUBSET Optional /\ t \in BOOLEAN /\ sv \in Nat /\ sessions \in Seq({"tree", "here"})
      BY <1>3, <1>5, <1>6
    <3> HIDE DEF p, t, sv, n
    <3>2. RunIsRight(NewRun(p, asked, t), sessions, sv) /\ NewRun(p, asked, t).ended = "no"
          /\ NewRun(p, asked, t).status = "none" /\ NewRun(p, asked, t).held = {}
      BY <3>1, NewIsRight, Zenon
    <3>3. QED BY <3>2 DEF p, t, sv
  <2>2. QED BY <2>1
<1> HIDE DEF n
<1>8. /\ runs' = <<n>> /\ n \in OfARun BY <1>2, <1>7 DEF n, RunIsRight
<1>9. runs' \in Seq(OfARun) /\ DOMAIN runs' = {1} /\ runs'[1] = n BY <1>8
<1>10. /\ batch' \in [cancels : BOOLEAN, settled : {"pending", "resolved", "rejected"}, made : Nat]
       /\ batch'.settled = "pending"
  <2>1. batch.made \in Nat /\ batch.made + 1 \in Nat BY <1>3
  <2>2. QED BY <1>1, <1>3, <2>1
<1>11. BatchIsWhole' BY <1>1, <1>7, <1>9, <1>10 DEF BatchIsWhole, Running
<1>12. QED BY <1>1, <1>3, <1>5, <1>7, <1>9, <1>10, <1>11 DEF ExecInv

-----------------------------------------------------------------------------
(* Executions: the whole                                                   *)

\* The first runs of a batch.
LEMMA BatchStarts == ExecutionsInit => ExecInv
<1>1. SUFFICES ASSUME ExecutionsInit PROVE ExecInv OBVIOUS
<1>2. PICK b \in Batches :
          /\ batch \in [cancels : IF Len(b) = 1 THEN {FALSE} ELSE BOOLEAN, settled : {"pending"}, made : {1}]
          /\ IF Len(b) = 1
             THEN \E asked \in SUBSET ToAsk(b[1]), timed \in BOOLEAN : runs = <<NewRun(b[1], asked, timed)>>
             ELSE runs = [i \in DOMAIN b |-> NewRun(b[i], ToAsk(b[i]), TRUE)]
  BY <1>1 DEF ExecutionsInit
<1>3. aborted = FALSE /\ sessions = << >> /\ saved = 0 BY <1>1 DEF ExecutionsInit
<1>4. b \in Seq(Providers) /\ b # << >> BY ExecutionsAssumption
<1>5. /\ batch \in [cancels : BOOLEAN, settled : {"pending", "resolved", "rejected"}, made : Nat] /\ batch.settled = "pending"
  <2>1. batch = [cancels |-> batch.cancels, settled |-> "pending", made |-> 1] /\ batch.cancels \in BOOLEAN
    BY <1>2
  <2>2. QED BY <2>1
<1>6. \A p \in Providers : ToAsk(p) \in SUBSET Optional BY DEF ToAsk
<1>7. Len(b) \in Nat \ {0} /\ DOMAIN b = 1 .. Len(b) /\ \A i \in 1 .. Len(b) : b[i] \in Providers BY <1>4
<1>8. sessions \in Seq({"tree", "here"}) /\ saved \in Nat /\ saved \in 0 .. Len(sessions) BY <1>3
<1>9. /\ DOMAIN runs = 1 .. Len(b) /\ runs = [i \in 1 .. Len(b) |-> runs[i]]
      /\ \A i \in 1 .. Len(b) : RunIsRight(runs[i], sessions, saved) /\ runs[i].ended = "no" /\ runs[i].status = "none"
  <2>1. CASE Len(b) = 1
    <3>1. PICK asked \in SUBSET ToAsk(b[1]), timed \in BOOLEAN : runs = <<NewRun(b[1], asked, timed)>>
      BY <1>2, <2>1
    <3>2. b[1] \in Providers BY <1>7, <2>1
    <3>3. asked \in SUBSET Optional BY <1>6, <3>2
    <3> DEFINE p == b[1]
               n == NewRun(p, asked, timed)
    <3>4. p \in Providers BY <3>2
    <3> HIDE DEF p
    <3>5. RunIsRight(n, sessions, saved) /\ n.ended = "no" /\ n.status = "none"
      BY <1>8, <3>3, <3>4, NewIsRight, Zenon
    <3>6. runs = <<n>> BY <3>1 DEF p
    <3> HIDE DEF n
    <3>7. 1 .. Len(b) = {1} BY <2>1
    <3>8. DOMAIN runs = {1} /\ runs[1] = n /\ runs = [i \in {1} |-> runs[i]] BY <3>6
    <3>9. QED BY <3>5, <3>7, <3>8
  <2>2. CASE Len(b) # 1
    <3>1. runs = [i \in 1 .. Len(b) |-> NewRun(b[i], ToAsk(b[i]), TRUE)] BY <1>2, <1>7, <2>2
    <3>2. ASSUME NEW i \in 1 .. Len(b)
          PROVE  RunIsRight(runs[i], sessions, saved) /\ runs[i].ended = "no" /\ runs[i].status = "none"
      <4> DEFINE p == b[i]
                 asked == ToAsk(p)
                 n == NewRun(p, asked, TRUE)
      <4>1. p \in Providers /\ asked \in SUBSET Optional /\ TRUE \in BOOLEAN BY <1>6, <1>7
      <4>2. runs[i] = n BY <3>1
      <4> HIDE DEF p, asked
      <4>3. RunIsRight(n, sessions, saved) /\ n.ended = "no" /\ n.status = "none"
        BY <1>8, <4>1, NewIsRight, Zenon
      <4>4. QED BY <4>2, <4>3
    <3>3. QED BY <3>1, <3>2
  <2>3. QED BY <2>1, <2>2
<1>10. runs \in Seq(OfARun) BY <1>9, <1>7 DEF RunIsRight
<1>11. BatchIsWhole
  <2>1. 1 \in DOMAIN runs /\ runs[1].ended = "no" BY <1>7, <1>9
  <2>2. QED BY <1>3, <1>5, <1>9, <2>1 DEF BatchIsWhole
<1>12. QED BY <1>3, <1>5, <1>8, <1>9, <1>10, <1>11 DEF ExecInv

\* Where no batch is made.
LEMMA NoBatchIsRight ==
    ASSUME runs = << >>, aborted = FALSE, sessions = << >>, saved = 0,
           batch = [cancels |-> FALSE, settled |-> "resolved", made |-> 0]
    PROVE  ExecInv
<1>1. /\ runs \in Seq(OfARun) /\ DOMAIN runs = {} /\ sessions \in Seq({"tree", "here"}) /\ saved \in 0 .. Len(sessions)
      /\ batch \in [cancels : BOOLEAN, settled : {"pending", "resolved", "rejected"}, made : Nat]
      /\ batch.cancels = FALSE /\ batch.settled = "resolved"
  OBVIOUS
<1>2. BatchIsWhole BY <1>1 DEF BatchIsWhole
<1>3. QED BY <1>1, <1>2 DEF ExecInv

\* Every step keeps it.
LEMMA BatchGoesOn ==
    ASSUME ExecInv, ExecutionsNext
    PROVE  ExecInv'
<1>1. CASE HostCancels BY <1>1, HostCancelsStays
<1>2. CASE RunsAgain BY <1>2, RunsAgainStays
<1>3. ASSUME NEW i \in DOMAIN runs, NEW s \in SomeSession, NEW how \in Hows,
             Passes(i, s) \/ StartsChild(i, s) \/ HttpEnds(i, how, s)
      PROVE  ExecInv'
  BY <1>3, PassesStays, StartsChildStays, HttpEndsStays
<1>4. ASSUME NEW i \in DOMAIN runs, NEW fate \in {"ignored", "thrown", "result"}, NEW remains \in SUBSET {"remains"},
             Fails(i, fate, remains)
      PROVE  ExecInv'
  BY <1>4, FailsStays
<1>5. ASSUME NEW i \in DOMAIN runs, NEW how \in Hows, Answers(i, how) \/ TierEnds(i, how)
      PROVE  ExecInv'
  BY <1>5, AnswersStays, TierEndsStays
<1>6. ASSUME NEW i \in DOMAIN runs, NEW how \in Hows, NEW heard \in BOOLEAN, AgyEnds(i, heard) \/ ChildEnds(i, how, heard)
      PROVE  ExecInv'
  BY <1>6, AgyEndsStays, ChildEndsStays
<1>7. ASSUME NEW i \in DOMAIN runs, NEW ok \in BOOLEAN, Responds(i, ok)
      PROVE  ExecInv'
  BY <1>7, RespondsStays
<1>8. ASSUME NEW i \in DOMAIN runs,
             CancelledBefore(i) \/ NeverStarted(i) \/ StartsOver(i) \/ TimerFires(i) \/ AppServerEnds(i)
      PROVE  ExecInv'
  BY <1>8, CancelledBeforeStays, NeverStartedStays, StartsOverStays, TimerFiresStays, AppServerEndsStays
<1>9. "failed" \in Hows BY DEF Hows
<1>10. QED BY <1>1, <1>2, <1>3, <1>4, <1>5, <1>6, <1>7, <1>8, <1>9 DEF ExecutionsNext

LEMMA BatchStays ==
    ASSUME ExecInv, UNCHANGED execVars
    PROVE  ExecInv'
<1>1. runs' = runs /\ aborted' = aborted /\ batch' = batch /\ sessions' = sessions /\ saved' = saved
  BY DEF execVars
<1>2. QED BY <1>1 DEF ExecInv, BatchIsWhole, Running

\* What it says of the results.
LEMMA BatchIsSound ==
    ASSUME ExecInv
    PROVE  StopsAreTold /\ SessionsStayHome /\ BatchIsWhole /\ (~LateFailures => NothingStaysBehind)
<1>1. ASSUME NEW i \in DOMAIN runs
      PROVE  /\ runs[i] \in OfARun /\ StopsItHeard(runs[i]) /\ SpeaksIn(runs[i], sessions, saved)
             /\ ~LateFailures => HoldsItsOwn(runs[i])
  BY DEF ExecInv, RunIsRight
<1>2. ASSUME NEW i \in DOMAIN runs
      PROVE  LET run == runs[i]
             IN  /\ run.status = "completed" => run.stops = << >> /\ ~run.late
                 /\ run.status \in {"aborted", "timeout"} => Contains(run.stops, run.status)
                 /\ (run.ended = "returned" /\ run.stops # << >> /\ run.answered # "refused") =>
                        /\ run.status \in ToSet(run.stops)
                        /\ run.route \in {"codex skills", "antigravity"} => run.status = Head(run.stops)
  <2> DEFINE run == runs[i]
  <2>1. run \in OfARun /\ StopsItHeard(run) /\ run.stops \in Seq(Stops) BY <1>1 DEF OfARun
  <2>2. run.stops # << >> => Head(run.stops) = run.stops[1]
    <3> DEFINE h == run.stops
    <3>1. h \in Seq(Stops) BY <2>1
    <3> HIDE DEF h
    <3>2. h # << >> => Head(h) = h[1] BY <3>1
    <3>3. QED BY <3>2 DEF h
  <2> HIDE DEF run
  <2>3. ToSet(run.stops) = {run.stops[n] : n \in DOMAIN run.stops} BY DEF ToSet
  <2>4. Contains(run.stops, run.status) <=> \E n \in DOMAIN run.stops : run.stops[n] = run.status
    BY <2>1, HasHeardOf
  <2>5. run.status = "completed" => run.stops = << >> /\ ~run.late BY <2>1 DEF StopsItHeard
  <2>6. run.status \in {"aborted", "timeout"} => Contains(run.stops, run.status) BY <2>1, <2>4 DEF StopsItHeard
  <2>7. (run.ended = "returned" /\ run.stops # << >> /\ run.answered # "refused") =>
            /\ run.status \in ToSet(run.stops)
            /\ run.route \in {"codex skills", "antigravity"} => run.status = Head(run.stops)
    BY <2>1, <2>2, <2>3 DEF StopsItHeard
  <2>8. QED BY <2>5, <2>6, <2>7 DEF run
<1>3. StopsAreTold BY <1>2 DEF StopsAreTold
<1>4. SessionsStayHome BY <1>1 DEF SessionsStayHome, SpeaksIn
<1>5. ~LateFailures => NothingStaysBehind BY <1>1 DEF NothingStaysBehind, HoldsItsOwn
<1>6. QED BY <1>3, <1>4, <1>5 DEF ExecInv

-----------------------------------------------------------------------------
(* MCOneShot: one of the parts, drawn at the start                         *)

LEMMA AllStart == OneShotInit => RunInv /\ ExecInv
<1>1. SUFFICES ASSUME OneShotInit PROVE RunInv /\ ExecInv OBVIOUS
<1>2. RunInv BY <1>1, RunStarts DEF OneShotInit
<1>3. CASE part = "batch" BY <1>1, <1>2, <1>3, BatchStarts DEF OneShotInit
<1>4. CASE part # "batch" BY <1>1, <1>2, <1>4, NoBatchIsRight DEF OneShotInit
<1>5. QED BY <1>3, <1>4

LEMMA AllGoOn == RunInv /\ ExecInv /\ [OneShotNext]_oneShotVars => RunInv' /\ ExecInv'
<1>1. SUFFICES ASSUME RunInv, ExecInv, [OneShotNext]_oneShotVars PROVE RunInv' /\ ExecInv' OBVIOUS
<1>2. CASE RunNext /\ UNCHANGED execVars BY <1>1, <1>2, RunGoesOn, BatchStays
<1>3. CASE ExecutionsNext /\ UNCHANGED runVars BY <1>1, <1>3, RunStays, BatchGoesOn
<1>4. CASE UNCHANGED <<runVars, execVars>> BY <1>1, <1>4, RunStays, BatchStays
<1>5. QED BY <1>1, <1>2, <1>3, <1>4 DEF OneShotNext, oneShotVars

\* Whichever way a run ends, the host has heard one last word of it and nothing that was made
\* for it is left, where no step fails whose failure the code leaves something behind of
\* (utils/process.ts, the finally blocks of providers/*/execute*.ts).
THEOREM RunsAlwaysEndClean ==
    ASSUME ~LateFailures
    PROVE  OneShotSpec => []RunsEndClean
<1>1. OneShotInit => RunInv /\ ExecInv BY AllStart
<1>2. RunInv /\ ExecInv /\ [OneShotNext]_oneShotVars => RunInv' /\ ExecInv' BY AllGoOn
<1>3. RunInv /\ ExecInv => RunsEndClean BY RunIsSound, BatchIsSound DEF RunsEndClean
<1>4. QED BY <1>1, <1>2, <1>3, PTL DEF OneShotSpec

\* Whatever fails, and however late: a result says how the run ended and what stopped it
\* first, names the session that its prompt went to, in the folder that one was begun in,
\* and a batch settles as its runs did (utils/process.ts,
\* providers/*/execute*.ts, utils/execute-all.ts).
THEOREM ResultsStayTrue == OneShotSpec => []ResultsAreTrue
<1>1. OneShotInit => RunInv /\ ExecInv BY AllStart
<1>2. RunInv /\ ExecInv /\ [OneShotNext]_oneShotVars => RunInv' /\ ExecInv' BY AllGoOn
<1>3. RunInv /\ ExecInv => ResultsAreTrue BY RunIsSound, BatchIsSound DEF ResultsAreTrue
<1>4. QED BY <1>1, <1>2, <1>3, PTL DEF OneShotSpec

=============================================================================
