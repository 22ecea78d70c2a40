------------------------ MODULE DevkitSessionProofs ------------------------
(***************************************************************************)
(* The commands of DevKit, for any number of clients, images, targets,     *)
(* templates and invocations: ReportIsHeard of a session, GateIsHonest of  *)
(* the coverage gate and SuccessIsComplete of bep and bootstrap.           *)
(***************************************************************************)
EXTENDS DevkitSession, DevkitReports, SequenceTheorems, FiniteSetTheorems, WellFoundedInduction, TLAPS

----------------------------------------------------------------------------
(* A session.                                                              *)

ClientStates == {"idle", "open", "closed"} \cup Harms

ListenerTypes ==
    /\ listener \in {"off", "listen", "check", "accept", "recv", "close", "done"}
    /\ queue \in Seq(Clients)
    /\ listener = "recv" => serving \in Clients
    /\ client \in [Clients -> ClientStates]
    /\ client[Inside] \notin Harms
    /\ event \in BOOLEAN

(* Why the socket does not listen: the thread has not come to it, or has   *)
(* been told to stop, or a client did it harm.                             *)
ListenerInv ==
    /\ ListenerTypes
    /\ main \in {"mounts", "handler"} => listener = "off"
    /\ main = "shutdown" => event
    /\ sock = "shut" => event
    /\ listener \in {"check", "accept", "recv"} => sock \in {"listening", "shut"}
    /\ listener \in {"close", "done"} => Excused

(* Every step keeps it: the thread leaves its loop only because the event  *)
(* is set, because shutdown - which comes after the event - wakes it up,   *)
(* or because recv fails on a client that does harm; whatever excused it   *)
(* goes on to.                                                             *)
LEMMA ListenerStep == ListenerInv /\ [mounts_known \/ SessionNext]_sessionVars => ListenerInv'
<1> SUFFICES ASSUME ListenerInv, [mounts_known \/ SessionNext]_sessionVars
             PROVE ListenerInv'
    OBVIOUS
<1> USE SessionAssumption DEF ListenerInv, ListenerTypes, Excused, ClientStates, Harms
<1>1. CASE UNCHANGED sessionVars
    BY <1>1 DEF sessionVars, netVars
<1>2. CASE mounts_known
    BY <1>2 DEF mounts_known, Main, netVars
<1>3. ASSUME Exits, main \in {"cleanup", "xhost", "event", "shutdown", "join cleaner", "join listener"}
      PROVE ListenerInv'
    <2>1. /\ main' = "exited" /\ listener' = "done" /\ sock' = "closed" /\ queue' = <<>>
          /\ client' = client /\ event' = event
        BY <1>3 DEF Exits
    <2>2. ListenerTypes'
        <3>1. <<>> \in Seq(Clients)
            OBVIOUS
        <3> QED
            BY <2>1, <3>1
    <2> QED
        BY <2>1, <2>2
<1>4. CASE MainThread
    <2>1. CASE start_container_event_handler
        BY <2>1 DEF start_container_event_handler, Main
    <2>2. CASE start_background_cleanup
        BY <2>2 DEF start_background_cleanup, Main, netVars
    <2>3. CASE docker_run
        BY <2>3 DEF docker_run, Main, netVars
    <2>4. CASE docker_run_returns
        BY <2>4 DEF docker_run_returns, Main, netVars
    <2>5. CASE cleanup_cancel_set
        BY <2>5 DEF cleanup_cancel_set, Main, netVars
    <2>6. CASE SetEvent
        BY <2>6 DEF SetEvent, Main, netVars
    <2>7. CASE Shutdown
        <3>1. /\ main = "shutdown" /\ main' = "join cleaner" /\ listener' = listener
              /\ serving' = serving /\ client' = client /\ event' = event
              /\ queue' = queue \/ queue' = <<>>
              /\ sock' = IF sock = "listening" THEN "shut" ELSE sock
            BY <2>7 DEF Shutdown, Main
        <3>2. queue' \in Seq(Clients)
            <4>1. <<>> \in Seq(Clients)
                OBVIOUS
            <4> QED
                BY <3>1, <4>1
        <3> QED
            BY <3>1, <3>2
    <2>8. CASE join_cleanup_thread
        BY <2>8 DEF join_cleanup_thread, Main, netVars
    <2>9. CASE join_event_handler_thread
        BY <2>9, <1>3 DEF join_event_handler_thread
    <2> QED
        BY <1>4, <2>1, <2>2, <2>3, <2>4, <2>5, <2>6, <2>7, <2>8, <2>9 DEF MainThread
<1>5. CASE ListenerThread
    <2>1. CASE listen
        BY <2>1 DEF listen, Listener
    <2>2. CASE while_not_cancelled
        BY <2>2 DEF while_not_cancelled, Listener, netVars
    <2>3. CASE accept
        <3>1. CASE sock = "shut"
            BY <2>3, <3>1 DEF accept, Listener
        <3>2. CASE sock = "listening"
            <4>1. queue # <<>> /\ serving' = Head(queue) /\ queue' = Tail(queue)
                  /\ listener = "accept" /\ listener' = "recv"
                BY <2>3, <3>2 DEF accept, Listener
            <4>2. Head(queue) \in Clients /\ Tail(queue) \in Seq(Clients)
                BY <4>1, HeadTailProperties
            <4> QED
                BY <2>3, <3>2, <4>1, <4>2 DEF accept
        <3> QED
            BY <2>3, <3>1, <3>2 DEF accept
    <2>4. CASE recv
        BY <2>4 DEF recv, Listener, Clients
    <2>5. CASE close
        BY <2>5 DEF close, Listener
    <2> QED
        BY <1>5, <2>1, <2>2, <2>3, <2>4, <2>5 DEF ListenerThread
<1>6. CASE CleanerThread
    BY <1>6 DEF CleanerThread, initial_delay, list_candidates, start_rmi, rmi_ends, batch_done,
                next_batch, netVars
<1>7. CASE join_times_out
    BY <1>7, <1>3 DEF join_times_out, Main, netVars
<1>8. CASE Environment
    <2>1. CASE fails_early \/ interrupted_again
        BY <2>1, <1>3 DEF fails_early, interrupted_again
    <2>2. CASE keyboard_interrupt
        BY <2>2 DEF keyboard_interrupt, Main, netVars
    <2>3. CASE report
        BY <2>3 DEF report, Clients
    <2>4. CASE report_refused \/ container_ends \/ docker_hangs
        BY <2>4 DEF report_refused, container_ends, docker_hangs, netVars
    <2>5. ASSUME NEW c \in Others, connect(c) PROVE ListenerInv'
        BY <2>5 DEF connect, Clients
    <2>6. ASSUME NEW c \in Others, disconnect(c) PROVE ListenerInv'
        BY <2>6 DEF disconnect, Clients
    <2> QED
        BY <1>8, <2>1, <2>2, <2>3, <2>4, <2>5, <2>6 DEF Environment
<1> QED
    BY <1>1, <1>2, <1>4, <1>5, <1>6, <1>7, <1>8 DEF SessionNext

(* The report of a starting container is refused only for a reason that    *)
(* ReportIsHeard names, however many clients use the port.                 *)
THEOREM ReportHeard == SessionSpec => ReportIsHeard
<1>1. SessionInit => ListenerInv
    <2>1. <<>> \in Seq(Clients)
        OBVIOUS
    <2> QED
        BY <2>1, SessionAssumption
        DEF SessionInit, ListenerInv, ListenerTypes, ClientStates, Harms, Clients
<1>2. ListenerInv /\ report_refused => listener \in {"off", "listen"} \/ Excused
    BY DEF ListenerInv, ListenerTypes, report_refused, Excused
<1>3. ListenerInv => [report_refused => listener \in {"off", "listen"} \/ Excused]_sessionVars
    BY <1>2
<1> QED
    BY <1>1, <1>3, ListenerStep, PTL DEF SessionSpec, ReportIsHeard

----------------------------------------------------------------------------
(* Induction.                                                              *)

(* Every set of numbers has a least one: what follows from one number to   *)
(* the next holds of all.                                                  *)
LEMMA LeastNat ==
  ASSUME NEW T, T \subseteq Nat, T # {}
  PROVE \E n \in T : \A m \in T : ~(m < n)
<1>1. IsWellFoundedOn(OpToRel(<, Nat), Nat)
  BY NatLessThanWellFounded
<1>2. PICK n \in T : \A m \in T : ~(<<m, n>> \in OpToRel(<, Nat))
  BY <1>1, WFMin
<1>3. ASSUME NEW m \in T PROVE ~(m < n)
  BY <1>2, <1>3 DEF OpToRel
<1> QED BY <1>3

LEMMA Induction ==
  ASSUME NEW S, 0 \in S, \A n \in Nat : n \in S => n + 1 \in S
  PROVE  Nat \subseteq S
<1>1. SUFFICES ASSUME Nat \ S # {} PROVE FALSE
  OBVIOUS
<1>2. PICK n \in Nat \ S : \A m \in Nat \ S : ~(m < n)
  BY <1>1, LeastNat
<1>3. n - 1 \in Nat /\ n - 1 < n /\ (n - 1) + 1 = n
  BY <1>2
<1> QED BY <1>2, <1>3

----------------------------------------------------------------------------
(* The report that Bazel writes and the loop that reads it.                *)

(* What the loop holds before the first line.                              *)
Start == [cur |-> {}, data |-> [f \in {} |-> FileCoverage]]

(* s is what the loop holds before line 1, 2, ..., m + 1.                 *)
Loop(lines, m, s) ==
    s = [n \in 0..m |-> IF n = 0 THEN Start ELSE parse_line(s[n - 1], lines[n])]

(* There is such an s for every number of lines, ...                       *)
LEMMA LoopExists ==
    ASSUME NEW lines
    PROVE  \A m \in Nat : \E s : Loop(lines, m, s)
<1> DEFINE S == {m \in Nat : \E s : Loop(lines, m, s)}
<1>1. 0 \in S
  <2> DEFINE s == [n \in 0..0 |-> Start]
  <2>1. s = [n \in 0..0 |-> IF n = 0 THEN Start ELSE parse_line(s[n - 1], lines[n])]
    OBVIOUS
  <2> QED BY <2>1 DEF Loop
<1>2. ASSUME NEW m \in Nat, m \in S PROVE m + 1 \in S
  <2>1. PICK s : Loop(lines, m, s)
    BY <1>2
  <2> DEFINE t == [n \in 0..(m + 1) |-> IF n = m + 1 THEN parse_line(s[m], lines[m + 1]) ELSE s[n]]
  <2>2. ASSUME NEW n \in 0..(m + 1)
        PROVE  t[n] = IF n = 0 THEN Start ELSE parse_line(t[n - 1], lines[n])
    <3>1. n # 0 => n - 1 \in 0..m /\ t[n - 1] = s[n - 1]
      OBVIOUS
    <3>2. n \in 0..m => s[n] = IF n = 0 THEN Start ELSE parse_line(s[n - 1], lines[n])
      BY <2>1 DEF Loop
    <3> QED BY <3>1, <3>2
  <2> HIDE DEF t
  <2>3. t = [n \in 0..(m + 1) |-> t[n]]
    BY DEF t
  <2>4. Loop(lines, m + 1, t)
    BY <2>2, <2>3 DEF Loop
  <2> QED BY <2>4
<1> HIDE DEF S
<1>3. Nat \subseteq S
  BY <1>1, <1>2, Induction
<1> QED BY <1>3 DEF S

(* ... and parse returns the last of it.                                   *)
LEMMA ParseLoop ==
    ASSUME NEW lines, Len(lines) \in Nat
    PROVE  \E s : Loop(lines, Len(lines), s) /\ parse(lines) = s[Len(lines)].data
<1> DEFINE after == CHOOSE s : Loop(lines, Len(lines), s)
<1>1. parse(lines) = after[Len(lines)].data
  BY DEF parse, Loop, Start
<1>2. Loop(lines, Len(lines), after)
  BY LoopExists
<1> QED BY <1>1, <1>2

(* What a record says of its file.                                         *)
Counts(m) == [lf |-> m.lf, lh |-> m.lh, brf |-> m.brf, brh |-> m.brh]

(* Bazel's order has every file once.                                      *)
LEMMA OrderOfFiles ==
    ASSUME NEW S, IsFiniteSet(S)
    PROVE  /\ Cardinality(S) \in Nat
           /\ SetToSeq(S) \in [1..Cardinality(S) -> S]
           /\ Len(SetToSeq(S)) = Cardinality(S)
           /\ IsInjective(SetToSeq(S))
           /\ S = {SetToSeq(S)[i] : i \in 1..Cardinality(S)}
<1> DEFINE n == Cardinality(S)
           order == SetToSeq(S)
<1>1. n \in Nat /\ ExistsBijection(1..n, S)
    BY FS_CardinalityType
<1>2. \E f \in [1..n -> S] : IsInjective(f)
    BY <1>1 DEF ExistsBijection, Bijection, Injection
<1>3. order \in [1..n -> S] /\ IsInjective(order)
    BY <1>2 DEF SetToSeq
<1> HIDE DEF n, order
<1>4. order \in Injection(1..n, S)
    BY <1>3 DEF Injection
<1>5. IsFiniteSet(1..n) /\ Cardinality(1..n) = n
    BY <1>1, FS_Interval
<1>6. order \in Surjection(1..n, S)
    BY <1>4, <1>5, FS_Injection DEF n
<1>7. S = {order[i] : i \in 1..n}
    BY <1>3, <1>6 DEF Surjection
<1>8. Len(order) = n
    BY <1>1, <1>3
<1> QED BY <1>1, <1>3, <1>7, <1>8 DEF n, order

(* Line 6i + j of the report is line j of record i + 1.                    *)
LEMMA LcovLine ==
    ASSUME NEW facts, IsFiniteSet(DOMAIN facts),
           NEW i \in Nat, i < Cardinality(DOMAIN facts), NEW j \in 1..6
    PROVE  LET f == SetToSeq(DOMAIN facts)[i + 1] IN Lcov(facts)[6 * i + j] = Record(f, facts[f])[j]
<1> DEFINE order == SetToSeq(DOMAIN facts)
           n == Cardinality(DOMAIN facts)
           line(k) == LET f == order[((k - 1) \div 6) + 1] IN Record(f, facts[f])[((k - 1) % 6) + 1]
<1>1. n \in Nat /\ Len(order) = n
    BY OrderOfFiles
<1>2. Lcov(facts) = [k \in 1..6 * Len(order) |-> line(k)]
    BY DEF Lcov
<1> HIDE DEF n, order, line
<1>3. 6 * i + j \in 1..6 * Len(order)
    BY <1>1 DEF n
<1>4. Lcov(facts)[6 * i + j] = line(6 * i + j)
    BY <1>2, <1>3
<1>5. (6 * i + j - 1) \div 6 = i /\ (6 * i + j - 1) % 6 = j - 1
    OBVIOUS
<1>6. (j - 1) + 1 = j
    OBVIOUS
<1> QED BY <1>4, <1>5, <1>6 DEF line, order

(* What one line does: it starts a record, says something of its file, or  *)
(* ends it.                                                                *)
LEMMA ParseFile ==
    ASSUME NEW data, NEW line, line.key = "SF"
    PROVE  parse_line([cur |-> {}, data |-> data], line) =
             [cur |-> {line.file},
              data |-> [x \in DOMAIN data \cup {line.file} |->
                           IF x = line.file THEN FileCoverage ELSE data[x]]]
  BY DEF parse_line

LEMMA ParseEnd ==
    ASSUME NEW cur, NEW data, NEW line, line.key = "end_of_record"
    PROVE  parse_line([cur |-> cur, data |-> data], line) = [cur |-> {}, data |-> data]
  BY DEF parse_line

(* In the record of file f, of which v is known; the other files are in F. *)
InRecord(F, c, f, v) == [cur |-> {f}, data |-> [x \in F \cup {f} |-> IF x = f THEN v ELSE c[x]]]

LEMMA ParseData ==
    ASSUME NEW F, NEW c, NEW f, NEW v, NEW line, line.key \in {"LF", "LH", "BRF", "BRH"}
    PROVE  parse_line(InRecord(F, c, f, v), line) = InRecord(F, c, f, parse_lcov_data_line(line, v))
<1> DEFINE D == [x \in F \cup {f} |-> IF x = f THEN v ELSE c[x]]
           acc == [cur |-> {f}, data |-> D]
           E == [x \in DOMAIN D |-> IF x \in {f} THEN parse_lcov_data_line(line, D[x]) ELSE D[x]]
<1>1. parse_line(acc, line) = [acc EXCEPT !.data = E]
    BY DEF parse_line
<1>2. E = [x \in F \cup {f} |-> IF x = f THEN parse_lcov_data_line(line, v) ELSE c[x]]
    <2>1. DOMAIN D = F \cup {f}
        OBVIOUS
    <2>2. \A x \in F \cup {f} : D[x] = IF x = f THEN v ELSE c[x]
        OBVIOUS
    <2> HIDE DEF D
    <2> QED BY <2>1, <2>2
<1>3. [acc EXCEPT !.data = E] = [cur |-> {f}, data |-> E]
    <2> HIDE DEF D, E
    <2> QED OBVIOUS
<1> QED BY <1>1, <1>2, <1>3 DEF InRecord

(* The six lines of a record give the counts of its file.                  *)
LEMMA ParseRecord ==
    ASSUME NEW F, NEW c, NEW f, NEW m, NEW r, r = Record(f, m),
           NEW s, NEW b, s[b] = [cur |-> {}, data |-> [x \in F |-> c[x]]],
           s[b + 1] = parse_line(s[b], r[1]), s[b + 2] = parse_line(s[b + 1], r[2]),
           s[b + 3] = parse_line(s[b + 2], r[3]), s[b + 4] = parse_line(s[b + 3], r[4]),
           s[b + 5] = parse_line(s[b + 4], r[5]), s[b + 6] = parse_line(s[b + 5], r[6])
    PROVE  s[b + 6] = [cur |-> {}, data |-> [x \in F \cup {f} |-> IF x = f THEN Counts(m) ELSE c[x]]]
<1> DEFINE State(v) == InRecord(F, c, f, v)
           Read(l, v) == parse_lcov_data_line(r[l], v)
<1>0. /\ r[1].key = "SF" /\ r[1].file = f
      /\ r[2].key = "BRF" /\ r[2].n = m.brf
      /\ r[3].key = "BRH" /\ r[3].n = m.brh
      /\ r[4].key = "LH" /\ r[4].n = m.lh
      /\ r[5].key = "LF" /\ r[5].n = m.lf
      /\ r[6].key = "end_of_record"
    BY DEF Record
<1>1. s[b + 1] = State(FileCoverage)
    BY <1>0, ParseFile DEF InRecord
<1>2. s[b + 2] = State(Read(2, FileCoverage))
    BY <1>0, <1>1, ParseData
<1>3. s[b + 3] = State(Read(3, Read(2, FileCoverage)))
    BY <1>0, <1>2, ParseData
<1>4. s[b + 4] = State(Read(4, Read(3, Read(2, FileCoverage))))
    BY <1>0, <1>3, ParseData
<1>5. s[b + 5] = State(Read(5, Read(4, Read(3, Read(2, FileCoverage)))))
    BY <1>0, <1>4, ParseData
<1>6. Read(5, Read(4, Read(3, Read(2, FileCoverage)))) = Counts(m)
    BY <1>0 DEF parse_lcov_data_line, FileCoverage, Counts
<1>7. s[b + 5] = State(Counts(m))
    BY <1>5, <1>6
<1> QED BY <1>0, <1>7, ParseEnd DEF InRecord

(* What the loop reads is what Bazel has measured, of every file: no       *)
(* record spills over into the next.                                       *)
LEMMA ParseLcov ==
    ASSUME NEW facts, IsFiniteSet(DOMAIN facts)
    PROVE  parse(Lcov(facts)) = [f \in DOMAIN facts |-> Counts(facts[f])]
<1> DEFINE n == Cardinality(DOMAIN facts)
           order == SetToSeq(DOMAIN facts)
           lines == Lcov(facts)
           F(k) == {order[i] : i \in 1..k}
           Read(k) == [cur |-> {}, data |-> [f \in F(k) |-> Counts(facts[f])]]
<1>1. n \in Nat /\ Len(order) = n /\ DOMAIN facts = F(n)
    BY OrderOfFiles
<1>2. Len(lines) = 6 * n
    <2>1. DOMAIN lines = 1..6 * n /\ 6 * n \in Nat
        BY <1>1 DEF Lcov
    <2>2. lines = [i \in 1..6 * n |-> lines[i]]
        BY <1>1 DEF Lcov
    <2> HIDE DEF lines, n
    <2> QED BY <2>1, <2>2
<1>3. PICK s : Loop(lines, 6 * n, s) /\ parse(lines) = s[6 * n].data
    BY <1>1, <1>2, ParseLoop
<1>4. ASSUME NEW k \in 1..6 * n PROVE s[k] = parse_line(s[k - 1], lines[k])
    BY <1>1, <1>3, <1>4 DEF Loop
<1> HIDE DEF n, order, lines
<1> DEFINE S == {k \in Nat : k <= n => s[6 * k] = Read(k)}
<1>5. 0 \in S
    <2>1. s[0] = Start
        BY <1>1, <1>3 DEF Loop
    <2>2. F(0) = {}
        OBVIOUS
    <2>3. [f \in F(0) |-> Counts(facts[f])] = [f \in {} |-> FileCoverage]
        BY <2>2
    <2>4. s[0] = Read(0)
        BY <2>1, <2>3 DEF Start
    <2>5. 6 * 0 = 0 /\ 0 \in Nat
        OBVIOUS
    <2> HIDE DEF Read
    <2> QED BY <2>4, <2>5
<1>6. ASSUME NEW k \in Nat, k \in S PROVE k + 1 \in S
    <2>1. SUFFICES ASSUME k + 1 <= n PROVE s[6 * (k + 1)] = Read(k + 1)
        OBVIOUS
    <2> DEFINE f == order[k + 1]
               r == Record(f, facts[f])
    <2>2. \A j \in 1..6 : lines[6 * k + j] = r[j]
        <3>1. ASSUME NEW j \in 1..6 PROVE lines[6 * k + j] = r[j]
            <4>1. k < Cardinality(DOMAIN facts)
                BY <1>1, <2>1 DEF n
            <4> QED BY <4>1, LcovLine DEF order, lines
        <3> QED BY <3>1
    <2>3. \A j \in 1..6 : s[6 * k + j] = parse_line(s[6 * k + j - 1], r[j])
        <3>1. ASSUME NEW j \in 1..6 PROVE s[6 * k + j] = parse_line(s[6 * k + j - 1], r[j])
            <4> HIDE DEF r
            <4>1. 6 * k + j \in 1..6 * n
                BY <1>1, <2>1
            <4> QED BY <1>4, <2>2, <4>1
        <3> QED BY <3>1
    <2> HIDE DEF r
    <2>4. /\ s[6 * k + 1] = parse_line(s[6 * k], r[1])
          /\ s[6 * k + 2] = parse_line(s[6 * k + 1], r[2])
          /\ s[6 * k + 3] = parse_line(s[6 * k + 2], r[3])
          /\ s[6 * k + 4] = parse_line(s[6 * k + 3], r[4])
          /\ s[6 * k + 5] = parse_line(s[6 * k + 4], r[5])
          /\ s[6 * k + 6] = parse_line(s[6 * k + 5], r[6])
        BY <2>3
    <2> DEFINE c == [x \in F(k) |-> Counts(facts[x])]
    <2>5. s[6 * k] = [cur |-> {}, data |-> [x \in F(k) |-> c[x]]]
        <3>1. k <= n
            BY <1>1, <2>1
        <3>2. s[6 * k] = Read(k)
            BY <1>6, <3>1
        <3> QED BY <3>2
    <2>6. F(k + 1) = F(k) \cup {f}
        OBVIOUS
    <2>7. s[6 * k + 6] = [cur |-> {}, data |-> [x \in F(k) \cup {f} |->
                                                  IF x = f THEN Counts(facts[f]) ELSE c[x]]]
        <3> DEFINE Fk == F(k)
                   b == 6 * k
        <3>1. s[b] = [cur |-> {}, data |-> [x \in Fk |-> c[x]]]
            BY <2>5
        <3>2. r = Record(f, facts[f])
            BY DEF r
        <3>3. /\ s[b + 1] = parse_line(s[b], r[1])
              /\ s[b + 2] = parse_line(s[b + 1], r[2])
              /\ s[b + 3] = parse_line(s[b + 2], r[3])
              /\ s[b + 4] = parse_line(s[b + 3], r[4])
              /\ s[b + 5] = parse_line(s[b + 4], r[5])
              /\ s[b + 6] = parse_line(s[b + 5], r[6])
            BY <2>4
        <3> HIDE DEF Fk, c, f, S, Read, b
        <3>4. s[b + 6] = [cur |-> {}, data |-> [x \in Fk \cup {f} |->
                                                  IF x = f THEN Counts(facts[f]) ELSE c[x]]]
            BY <3>1, <3>2, <3>3, ParseRecord
        <3> QED BY <3>4 DEF Fk, b
    <2>8. [x \in F(k) \cup {f} |-> IF x = f THEN Counts(facts[f]) ELSE c[x]]
            = [x \in F(k + 1) |-> Counts(facts[x])]
        BY <2>6
    <2>9. 6 * (k + 1) = 6 * k + 6
        OBVIOUS
    <2> QED BY <2>7, <2>8, <2>9
<1>7. n \in S
    <2> HIDE DEF S
    <2> QED BY <1>1, <1>5, <1>6, Induction
<1>8. s[6 * n] = Read(n)
    BY <1>1, <1>7
<1> QED BY <1>1, <1>3, <1>8 DEF lines

----------------------------------------------------------------------------
(* The coverage gate.                                                      *)

(* Where a command looks for its report is where Bazel has left it, unless *)
(* it was started below the root of a nested workspace.                    *)
LEMMA ReportDir ==
    ASSUME GateInv, NEW g \in Gates, Placed(g), reports[Workspace(gate[g].cwd)].run > 0
    PROVE report_dir(gate[g].cwd) = Workspace(gate[g].cwd)
BY DEF GateInv, Dirs, Placed, Workspace, report_dir, report_dir_310

(* The files of a report reach the thresholds of a command.                *)
Reached(g, facts) ==
    \A f \in DOMAIN facts : /\ Meets(facts[f].lh, facts[f].lf, Target(g, f, "lines"))
                            /\ Meets(facts[f].brh, facts[f].brf, Target(g, f, "branch"))

(* They do, when the command finds so in the report.                       *)
LEMMA ValidReport ==
    ASSUME NEW g, NEW S, S \subseteq Files, NEW facts \in [S -> Measured],
           print_and_validate_report(g, parse(Lcov(facts)))
    PROVE  Reached(g, facts)
<1>1. IsFiniteSet(S)
    BY ReportsAssumption, FS_Subset
<1>2. parse(Lcov(facts)) = [f \in S |-> Counts(facts[f])]
    BY <1>1, ParseLcov
<1> QED
    BY <1>2 DEF print_and_validate_report, Reached, Counts

(* What GateIsHonest says of one command.                                  *)
Honest(g) ==
    gate[g].pc = "passed" =>
        /\ Placed(g) => gate[g].read.run >= gate[g].run
        /\ Placed(g) /\ ~Overtaken(g) => gate[g].scope \subseteq DOMAIN gate[g].read.facts
        /\ Reached(gate[g], gate[g].read.facts)

(* A command that is overtaken stays so: what another one has run, and     *)
(* where, does not change any more.                                        *)
LEMMA StaysHonest ==
    ASSUME GateInv, UNCHANGED nested, NEW g \in Gates, gate'[g] = gate[g], DOMAIN gate' = Gates,
           \A h \in Gates : gate[h].run = 0 \/
               /\ gate'[h].cwd = gate[h].cwd /\ gate'[h].scope = gate[h].scope
               /\ gate'[h].run = gate[h].run
    PROVE  Honest(g)'
<1>1. Honest(g) /\ gate[g].run \in Nat
    BY DEF GateInv, GateIsHonest, Honest, Reached
<1>2. Placed(g)' = Placed(g)
    BY DEF Placed, Workspace
<1>3. Overtaken(g) => Overtaken(g)'
    <2> SUFFICES ASSUME Overtaken(g) PROVE Overtaken(g)'
        OBVIOUS
    <2>1. PICK h \in Gates : /\ Workspace(gate[h].cwd) = Workspace(gate[g].cwd)
                             /\ gate[h].run > gate[g].run
                             /\ ~(gate[g].scope \subseteq gate[h].scope)
        BY DEF Overtaken
    <2>2. gate[h].run # 0
        BY <1>1, <2>1
    <2> QED
        BY <2>1, <2>2 DEF Overtaken, Workspace
<1>4. Reached(gate[g], gate[g].read.facts) => Reached(gate'[g], gate'[g].read.facts)
    OBVIOUS
<1> QED
    BY <1>1, <1>2, <1>3, <1>4 DEF Honest, Reached, Target

(* The report in a workspace that is not older than the run of a command   *)
(* covers the files of its target, unless the command was overtaken.       *)
LEMMA ReportCovers ==
    ASSUME GateInv, NEW g \in Gates, gate[g].run > 0,
           reports[Workspace(gate[g].cwd)].run >= gate[g].run, ~Overtaken(g)
    PROVE  gate[g].scope \subseteq DOMAIN reports[Workspace(gate[g].cwd)].facts
<1> DEFINE rep == reports[Workspace(gate[g].cwd)]
<1>1. /\ gate[g].run \in Nat /\ rep.run \in Nat /\ rep.run > 0
    BY DEF GateInv, Dirs, Workspace
<1>2. PICK h \in Gates : /\ gate[h].run = rep.run
                         /\ Workspace(gate[h].cwd) = Workspace(gate[g].cwd)
                         /\ rep.facts \in [gate[h].scope -> Measured]
    BY <1>1 DEF GateInv, Dirs, Workspace
<1>3. CASE gate[h].run = gate[g].run
    <2>1. h = g
        BY <1>2, <1>3 DEF GateInv
    <2> QED
        BY <1>2, <2>1
<1>4. CASE gate[h].run > gate[g].run
    <2>1. gate[g].scope \subseteq gate[h].scope
        BY <1>2, <1>4 DEF Overtaken
    <2> QED
        BY <1>2, <2>1
<1> QED
    BY <1>1, <1>2, <1>3, <1>4

(* The command in g ends, and nothing else of the commands changes.        *)
Finishes(g) ==
    /\ DOMAIN gate' = Gates /\ \A h \in Gates \ {g} : gate'[h] = gate[h]
    /\ gate'[g].pc \in {"passed", "failed"}
    /\ gate'[g].cwd = gate[g].cwd /\ gate'[g].run = gate[g].run
    /\ gate'[g].scope = gate[g].scope /\ DOMAIN gate'[g] = DOMAIN NewGate

(* Every step keeps it: a report is replaced by a later one only, and a    *)
(* command that reads one finds that of its run, or a later one.           *)
LEMMA GateStep == GateInv /\ [CoverageNext]_coverageVars => GateInv'
<1> SUFFICES ASSUME GateInv, [CoverageNext]_coverageVars
             PROVE GateInv'
    OBVIOUS
<1> USE DEF NewGate, NoReport, Dirs, Workspace
<1>0. (\A g \in Gates : Honest(g)') => GateIsHonest'
    BY DEF Honest, Reached, GateIsHonest, Target
<1>1. CASE UNCHANGED coverageVars
    BY <1>1 DEF coverageVars, GateInv, GateIsHonest, Placed, Overtaken, Target
<1>2. ASSUME NEW g \in Gates, NEW cwd \in Dirs, NEW scope \in Scopes, NEW default \in Defaults,
             NEW own \in Thresholds \cup {BadThresholds}, coverage_main(g, cwd, scope, default, own)
      PROVE GateInv'
    <2>1. /\ gate[g].pc = "new" /\ gate[g].run = 0 /\ UNCHANGED <<release, nested, reports, runs>>
          /\ DOMAIN gate' = Gates /\ \A h \in Gates \ {g} : gate'[h] = gate[h]
          /\ gate'[g].pc \in {"bazel", "failed"} /\ gate'[g].run = 0
          /\ DOMAIN gate'[g] = DOMAIN NewGate /\ gate'[g].cwd \in Dirs
          /\ gate'[g].scope \subseteq Files
        BY <1>2, ReportsAssumption DEF coverage_main, GateInv
    <2>2. \A h \in Gates \ {g} : Honest(h)'
        BY <2>1, StaysHonest
    <2>3. GateIsHonest'
        BY <1>0, <2>1, <2>2 DEF Honest
    <2> QED
        BY <2>1, <2>3 DEF GateInv
<1>3. ASSUME NEW g \in Gates, NEW facts \in [gate[g].scope -> Measured], bazel_coverage(g, facts)
      PROVE GateInv'
    <2>1. /\ gate[g].pc = "bazel" /\ gate[g].run = 0 /\ UNCHANGED <<release, nested>>
          /\ runs' = runs + 1 /\ runs \in Nat
          /\ DOMAIN gate' = Gates /\ \A h \in Gates \ {g} : gate'[h] = gate[h]
          /\ gate' = [gate EXCEPT ![g].pc = "report", ![g].run = runs + 1]
          /\ DOMAIN reports' = Dirs
          /\ reports' = [reports EXCEPT ![Workspace(gate[g].cwd)] =
                            [run |-> runs + 1, facts |-> facts, lines |-> Lcov(facts)]]
        BY <1>3 DEF bazel_coverage, GateInv
    <2>2. /\ gate'[g].pc = "report" /\ gate'[g].run = runs + 1 /\ gate'[g].cwd = gate[g].cwd
          /\ gate'[g].scope = gate[g].scope /\ DOMAIN gate'[g] = DOMAIN NewGate
        BY <2>1 DEF GateInv
    <2> DEFINE ws == Workspace(gate[g].cwd)
    <2>3. /\ ws \in Dirs /\ Workspace(gate[g].cwd)' = ws
          /\ reports'[ws] = [run |-> runs + 1, facts |-> facts, lines |-> Lcov(facts)]
          /\ \A d \in Dirs \ {ws} : reports'[d] = reports[d]
        BY <2>1, <2>2 DEF GateInv
    <2>4. \A h \in Gates \ {g} : Honest(h)'
        BY <2>1, StaysHonest
    <2>5. GateIsHonest'
        BY <1>0, <2>2, <2>4 DEF Honest
    <2>6. ASSUME NEW d \in Dirs
          PROVE  /\ DOMAIN reports'[d] = DOMAIN NoReport
                 /\ reports'[d].run \in 0..runs'
                 /\ reports'[d].run > 0 =>
                       /\ reports'[d].lines = Lcov(reports'[d].facts)
                       /\ \E h \in Gates : /\ gate'[h].run = reports'[d].run
                                           /\ Workspace(gate[h].cwd)' = d
                                           /\ reports'[d].facts \in [gate'[h].scope -> Measured]
        <3>1. CASE d = ws
            BY <2>1, <2>2, <2>3, <3>1
        <3>2. CASE d # ws
            <4>1. DOMAIN reports'[d] = DOMAIN NoReport /\ reports'[d].run \in 0..runs'
                BY <2>1, <2>3, <3>2 DEF GateInv
            <4>2. ASSUME reports[d].run > 0
                  PROVE  /\ reports[d].lines = Lcov(reports[d].facts)
                         /\ \E h \in Gates \ {g} : /\ gate[h].run = reports[d].run
                                                   /\ Workspace(gate[h].cwd) = d
                                                   /\ reports[d].facts \in [gate[h].scope -> Measured]
                BY <2>1, <4>2 DEF GateInv
            <4> QED
                BY <2>1, <2>3, <3>2, <4>1, <4>2
        <3> QED
            BY <3>1, <3>2
    <2>7. ASSUME NEW h \in Gates
          PROVE  /\ DOMAIN gate'[h] = DOMAIN NewGate
                 /\ gate'[h].cwd \in Dirs
                 /\ gate'[h].scope \subseteq Files
                 /\ gate'[h].run \in 0..runs'
                 /\ gate'[h].pc \in {"new", "bazel"} => gate'[h].run = 0
                 /\ gate'[h].pc = "report" =>
                       gate'[h].run \in 1..runs' /\ reports'[Workspace(gate[h].cwd)'].run >= gate'[h].run
        <3>1. CASE h = g
            BY <2>1, <2>2, <2>3, <3>1 DEF GateInv
        <3>2. CASE h # g
            <4>1. /\ gate'[h] = gate[h] /\ gate[h].run \in 0..runs
                  /\ Workspace(gate[h].cwd)' = Workspace(gate[h].cwd)
                BY <2>1, <3>2 DEF GateInv
            <4>2. gate[h].pc = "report" =>
                     gate[h].run \in 1..runs /\ reports[Workspace(gate[h].cwd)].run >= gate[h].run
                BY DEF GateInv
            <4> QED
                BY <2>1, <2>3, <4>1, <4>2 DEF GateInv
        <3> QED
            BY <3>1, <3>2
    <2>8. \A q, h \in Gates : gate'[q].run = gate'[h].run /\ gate'[q].run > 0 => q = h
        BY <2>1, <2>2 DEF GateInv
    <2>9. /\ runs' \in Nat /\ (release' = "3.10.0" => ~nested')
          /\ (~nested' => reports'["sub"].run = 0) /\ reports'["below"].run = 0
        BY <2>1, <2>3 DEF GateInv
    <2> QED
        BY <2>1, <2>5, <2>6, <2>7, <2>8, <2>9 DEF GateInv
<1>4. ASSUME NEW g \in Gates, gate[g].pc \in {"bazel", "report"},
             Finishes(g), Honest(g)', UNCHANGED <<release, nested, reports, runs>>
      PROVE GateInv'
    <2>1. \A h \in Gates \ {g} : Honest(h)'
        BY <1>4, StaysHonest DEF Finishes
    <2>2. GateIsHonest'
        BY <1>0, <1>4, <2>1
    <2> QED
        BY <1>4, <2>2 DEF GateInv, Finishes
<1>5. ASSUME NEW g \in Gates, bazel_fails(g) PROVE GateInv'
    <2>1. /\ gate[g].pc = "bazel" /\ UNCHANGED <<release, nested, reports, runs>>
          /\ gate' = [gate EXCEPT ![g].pc = "failed"]
        BY <1>5 DEF bazel_fails
    <2>2. gate' = [gate EXCEPT ![g].pc = "failed", ![g].read = gate[g].read] /\ gate'[g].pc = "failed"
        BY <2>1 DEF GateInv
    <2>3. Honest(g)'
        BY <2>2 DEF Honest
    <2>4. Finishes(g)
        BY <2>2 DEF Finishes, GateInv
    <2> QED
        BY <1>4, <2>1, <2>3, <2>4
<1>6. ASSUME NEW g \in Gates, generate_lcov_report(g) PROVE GateInv'
    <2> DEFINE rep == reports[report_dir(gate[g].cwd)]
    <2>1. /\ gate[g].pc = "report" /\ UNCHANGED <<release, nested, reports, runs>>
          /\ gate[g].run > 0 /\ reports[Workspace(gate[g].cwd)].run >= gate[g].run
          /\ reports[Workspace(gate[g].cwd)].run > 0
        BY <1>6 DEF generate_lcov_report, GateInv
    <2>2. PICK pc \in {"passed", "failed"} :
              /\ gate' = [gate EXCEPT ![g].pc = pc, ![g].read = rep]
              /\ pc = "passed" => rep.run > 0 /\ print_and_validate_report(gate[g], parse(rep.lines))
        BY <1>6 DEF generate_lcov_report
    <2>3. /\ gate'[g].pc = pc /\ gate'[g].read = rep /\ gate'[g].run = gate[g].run
          /\ gate'[g].own = gate[g].own /\ gate'[g].default = gate[g].default
          /\ gate'[g].cwd = gate[g].cwd /\ gate'[g].scope = gate[g].scope
        BY <2>2 DEF GateInv
    <2>4. ASSUME pc = "passed" PROVE Reached(gate[g], rep.facts)
        <3>1. report_dir(gate[g].cwd) \in Dirs
            BY DEF GateInv, report_dir, report_dir_310
        <3>2. PICK h \in Gates : rep.facts \in [gate[h].scope -> Measured] /\ rep.lines = Lcov(rep.facts)
            BY <2>2, <2>4, <3>1 DEF GateInv
        <3>3. gate[h].scope \subseteq Files
            BY DEF GateInv
        <3> HIDE DEF rep
        <3> QED
            BY <2>2, <2>4, <3>2, <3>3, ValidReport
    <2>5. Placed(g)' = Placed(g) /\ Overtaken(g)' = Overtaken(g)
        BY <2>1, <2>2 DEF GateInv, Placed, Overtaken
    <2>6. Placed(g) => rep = reports[Workspace(gate[g].cwd)]
        BY <2>1, ReportDir
    <2>7. Placed(g) /\ ~Overtaken(g) => gate[g].scope \subseteq DOMAIN rep.facts
        BY <2>1, <2>6, ReportCovers
    <2>8. Reached(gate[g], rep.facts) => Reached(gate'[g], gate'[g].read.facts)
        BY <2>3 DEF Reached, Target
    <2>9. Honest(g)'
        BY <2>1, <2>3, <2>4, <2>5, <2>6, <2>7, <2>8 DEF Honest, Reached, Target
    <2>10. Finishes(g)
        BY <2>2 DEF Finishes, GateInv
    <2> QED
        BY <1>4, <2>1, <2>9, <2>10
<1> QED
    BY <1>1, <1>2, <1>3, <1>5, <1>6 DEF CoverageNext

LEMMA GateStart == CoverageInit => GateInv
BY DEF CoverageInit, GateInv, GateIsHonest, NewGate, NoReport, Dirs, Workspace

(* A coverage command that passes, and was not started below the root of a *)
(* nested workspace, has read the report of its own run of Bazel, or a     *)
(* later one, which has all the files of its target unless a narrower      *)
(* command has overtaken it; and every file in the report reaches its      *)
(* thresholds by what Bazel has measured, however many files there are.    *)
THEOREM GateHonest == ReportsSpec => []GateIsHonest
<1>1. GateInv /\ [ReportsNext]_ReportsVars => GateInv'
    BY GateStep DEF ReportsNext, ReportsVars
<1>2. GateInv => GateIsHonest
    BY DEF GateInv
<1> QED
    BY <1>1, <1>2, GateStart, PTL DEF ReportsSpec

----------------------------------------------------------------------------
(* Build events.                                                           *)

(* Every step keeps it: a target takes the file of an earlier one only to  *)
(* leave its own events there.                                             *)
LEMMA BepStep == BepInv /\ [BepNext]_bepVars => BepInv'
<1> SUFFICES ASSUME BepInv, [BepNext]_bepVars
             PROVE BepInv'
    OBVIOUS
<1>1. CASE UNCHANGED bepVars
    BY <1>1 DEF BepInv, bepVars
<1>2. ASSUME NEW targets \in TargetLists, generate_bazel_events_folder(targets)
      PROVE BepInv'
    <2>1. targets \in Seq(Labels)
        BY ReportsAssumption
    <2>2. All \in Labels
        BY DEF Labels
    <2> QED
        BY <1>2, <2>1, <2>2 DEF BepInv, generate_bazel_events_folder
<1>3. CASE generate_build_event_json
    <2> DEFINE t == bep.targets[bep.next]
    <2>1. /\ bep' = [bep EXCEPT !.next = @ + 1]
          /\ DOMAIN events' = DOMAIN events \cup {output_file(t)}
          /\ events'[output_file(t)] = [target |-> t, n |-> bep.n]
          /\ \A f \in DOMAIN events : f # output_file(t) => events'[f] = events[f]
          /\ bep.pc = "targets" /\ bep.next <= Len(bep.targets)
        BY <1>3 DEF generate_build_event_json
    <2>2. /\ bep'.pc = bep.pc /\ bep'.n = bep.n /\ bep'.targets = bep.targets
          /\ bep'.next = bep.next + 1 /\ bep.next \in Nat \ {0} /\ Len(bep.targets) \in Nat
        BY <2>1 DEF BepInv
    <2>3. bep' \in [pc : {"new", "targets", "failed", "done"}, n : Nat, targets : Seq(Labels),
                    next : Nat \ {0}]
        BY <2>1 DEF BepInv
    <2>4. ASSUME NEW i \in 1..Len(bep.targets), i < bep.next + 1
          PROVE \/ \E j \in 1..Len(bep.targets) :
                      /\ i < j /\ j < bep.next + 1
                      /\ output_file(bep.targets[j]) = output_file(bep.targets[i])
                \/ /\ output_file(bep.targets[i]) \in DOMAIN events'
                   /\ events'[output_file(bep.targets[i])] = [target |-> bep.targets[i], n |-> bep.n]
        <3>1. CASE i = bep.next
            BY <3>1, <2>1
        <3>2. CASE i # bep.next /\ output_file(bep.targets[i]) = output_file(t)
            <4>1. bep.next \in 1..Len(bep.targets) /\ i < bep.next /\ bep.next < bep.next + 1
                BY <3>2, <2>4, <2>2, <2>1
            <4> QED
                BY <3>2, <4>1
        <3>3. CASE i # bep.next /\ output_file(bep.targets[i]) # output_file(t)
            <4>1. i < bep.next
                BY <3>3, <2>4, <2>2
            <4>2. CASE \E j \in 1..Len(bep.targets) :
                         i < j /\ j < bep.next /\ output_file(bep.targets[j]) = output_file(bep.targets[i])
                BY <4>2, <2>2
            <4>3. CASE /\ output_file(bep.targets[i]) \in DOMAIN events
                       /\ events[output_file(bep.targets[i])] = [target |-> bep.targets[i], n |-> bep.n]
                BY <4>3, <3>3, <2>1
            <4> QED
                BY <4>1, <4>2, <4>3 DEF BepInv
        <3> QED
            BY <3>1, <3>2, <3>3
    <2> QED
        BY <2>1, <2>2, <2>3, <2>4 DEF BepInv
<1>4. CASE run_command_fails
    BY <1>4 DEF run_command_fails, BepInv
<1>5. CASE bep_succeeds
    BY <1>5 DEF bep_succeeds, BepInv
<1> QED
    BY <1>1, <1>2, <1>3, <1>4, <1>5 DEF BepNext

LEMMA BepStart == BepInit => BepInv
BY DEF BepInit, NewBep, BepInv

----------------------------------------------------------------------------
(* Templates.                                                              *)

(* Every step keeps it: only a file that is rendered leaves the list with  *)
(* no error, and an error is never forgotten.                              *)
LEMMA BootStep == BootInv /\ [BootNext]_bootVars => BootInv'
<1> SUFFICES ASSUME BootInv, [BootNext]_bootVars
             PROVE BootInv'
    OBVIOUS
<1>1. CASE UNCHANGED bootVars
    BY <1>1 DEF BootInv, bootVars
<1>2. ASSUME NEW kind \in [Templates -> Kinds], copy_and_template(kind) PROVE BootInv'
    BY <1>2 DEF copy_and_template, BootInv
<1>3. CASE bad_arguments
    BY <1>3 DEF bad_arguments, BootInv
<1>4. ASSUME NEW f \in boot.todo, render(f) PROVE BootInv'
    BY <1>4 DEF render, BootInv
<1>5. ASSUME NEW f \in boot.todo, cannot_read(f) PROVE BootInv'
    BY <1>5 DEF cannot_read, BootInv
<1>6. CASE bootstrap_ends
    BY <1>6 DEF bootstrap_ends, BootInv
<1> QED
    BY <1>1, <1>2, <1>3, <1>4, <1>5, <1>6 DEF BootNext

LEMMA BootStart == BootInit => BootInv
BY DEF BootInit, BootInv

(* What bep and bootstrap report as done is all there, for any number of   *)
(* targets, templates and earlier runs.                                    *)
THEOREM SuccessCorrect == ReportsSpec => []SuccessIsComplete
<1>1. BepInv /\ BootInv /\ [ReportsNext]_ReportsVars => (BepInv /\ BootInv)'
    BY BepStep, BootStep DEF ReportsNext, ReportsVars
<1>2. BepInv /\ BootInv => SuccessIsComplete
    <2> SUFFICES ASSUME BepInv, BootInv PROVE SuccessIsComplete
        OBVIOUS
    <2>1. ASSUME bep.pc = "done", NEW i \in DOMAIN bep.targets
          PROVE \/ \E j \in DOMAIN bep.targets :
                      j > i /\ output_file(bep.targets[j]) = output_file(bep.targets[i])
                \/ /\ output_file(bep.targets[i]) \in DOMAIN events
                   /\ events[output_file(bep.targets[i])] = [target |-> bep.targets[i], n |-> bep.n]
        <3>1. /\ DOMAIN bep.targets = 1..Len(bep.targets)
              /\ Len(bep.targets) \in Nat /\ bep.next \in Nat /\ bep.next > Len(bep.targets)
            BY <2>1 DEF BepInv
        <3>2. i < bep.next
            BY <3>1
        <3>3. CASE \E j \in 1..Len(bep.targets) :
                      i < j /\ j < bep.next /\ output_file(bep.targets[j]) = output_file(bep.targets[i])
            <4>1. PICK j \in 1..Len(bep.targets) :
                      i < j /\ output_file(bep.targets[j]) = output_file(bep.targets[i])
                BY <3>3
            <4>2. j > i
                BY <4>1, <3>1
            <4> QED
                BY <4>1, <4>2, <3>1
        <3>4. CASE /\ output_file(bep.targets[i]) \in DOMAIN events
                   /\ events[output_file(bep.targets[i])] = [target |-> bep.targets[i], n |-> bep.n]
            BY <3>4
        <3> QED
            BY <3>1, <3>2, <3>3, <3>4 DEF BepInv
    <2>2. ASSUME boot.pc = "done", NEW f \in Templates, boot.kind[f] # "include"
          PROVE dest[f] = "rendered"
        BY <2>2 DEF BootInv
    <2> QED
        BY <2>1, <2>2 DEF SuccessIsComplete
<1> QED
    BY <1>1, <1>2, BepStart, BootStart, PTL DEF ReportsSpec
=============================================================================
