-------------------------- MODULE StatisticsProofs --------------------------
(***************************************************************************)
(* Proofs, for every clock, every width of the words and every amount of   *)
(* data, of what Statistics.cfg checks on an instance.                     *)
(*                                                                         *)
(* The bytes add up because a rate is a quotient, and a quotient times its *)
(* divisor is not more than the dividend.  The CPU time adds up because a  *)
(* difference of two words is at most the difference of the times they     *)
(* hold the ends of.  Nothing is said of how far apart two samples are: a  *)
(* signal may end the sleep between them at once.                          *)
(***************************************************************************)
EXTENDS Statistics, TLAPS

(* The last total is the time the instance had used then, as far as a word *)
(* holds it, and a thread that ended before the two questions is in the    *)
(* answer to the first.                                                    *)
CpuFollows ==
  /\ actual.spent <= live + ended
  /\ step = "times" /\ ~actual.missed => reading.ended = ended
  /\ step = "times" /\ child = "up" => reading.told
  /\ child = "up" /\ sample.time > 0 /\ ~actual.missed_before
       => sample.total = actual.spent % Word

IInv == TypeOK /\ NoByteTwice /\ CpuFollows
-----------------------------------------------------------------------------
USE RowAssumption, StatisticsAssumption

(* A quotient times its divisor is not more than the dividend.             *)
LEMMA QuotientFacts ==
  ASSUME NEW n \in Nat, NEW d \in Nat \ {0}
  PROVE  /\ n \div d \in 0..n
         /\ (n \div d) * d \in 0..n
<1>1. n \div d \in Nat /\ (n \div d) * d <= n
  OBVIOUS
<1>2. (n \div d) <= (n \div d) * d
  BY <1>1
<1>3. QED
  BY <1>1, <1>2

LEMMA RemainderFacts ==
  ASSUME NEW n \in Int, NEW d \in Nat \ {0}
  PROVE  n % d \in 0..(d - 1)
OBVIOUS

LEMMA Division ==
  ASSUME NEW n \in Nat, NEW d \in Nat \ {0}
  PROVE  /\ n = d * (n \div d) + (n % d)
         /\ n \div d \in Nat /\ n % d \in 0..(d - 1) /\ n % d <= n
OBVIOUS

LEMMA QuotientGrows ==
  ASSUME NEW m \in Nat, NEW n \in Nat, m <= n, NEW d \in Nat \ {0}
  PROVE  m \div d <= n \div d
OBVIOUS

(* What a word holds of two numbers has a difference whose word is at most *)
(* the difference of the numbers.                                          *)
LEMMA Multiples ==
  ASSUME NEW w \in Nat \ {0}, NEW k \in Int
  PROVE  (k > 0 => w * k >= w) /\ (k < 0 => w * k + w <= 0)
OBVIOUS

LEMMA Distribution ==
  ASSUME NEW w \in Nat, NEW p \in Int, NEW q \in Int, NEW r \in Int,
         NEW s \in Int
  PROVE  r - s = ((w * p + r) - (w * q + s)) + w * (q - p)
OBVIOUS

LEMMA SmallRemainders ==
  ASSUME NEW w \in Nat \ {0}
  PROVE  /\ \A y \in 0..(w - 1) : y % w = y
         /\ \A y \in (-w)..(-1) : y % w = y + w
OBVIOUS

LEMMA WordDifference ==
  ASSUME NEW a \in Nat, NEW b \in Nat, b <= a, NEW w \in Nat \ {0}
  PROVE  ((a % w) - (b % w)) % w <= a - b
<1> DEFINE k == (b \div w) - (a \div w)
           y == (a % w) - (b % w)
<1>1. k \in Int /\ a - b \in Nat
  BY Division
<1>2. y = (a - b) + w * k
  <2>1. /\ a \div w \in Int /\ b \div w \in Int
        /\ a % w \in Int /\ b % w \in Int
    BY Division
  <2>2. y = ((w * (a \div w) + (a % w)) - (w * (b \div w) + (b % w))) + w * k
    BY <2>1, Distribution
  <2>3. QED
    BY <2>2, Division
<1>3. y \in (-w)..(w - 1)
  BY Division
<1> SUFFICES y % w <= a - b
  OBVIOUS
<1> HIDE DEF k, y
<1>4. CASE y \in 0..(w - 1)
  BY <1>1, <1>2, <1>4, Multiples, SmallRemainders
<1>5. CASE y \in (-w)..(-1)
  <2>1. k < 0
    BY <1>1, <1>2, <1>5, Multiples
  <2>2. QED
    BY <1>1, <1>2, <1>5, <2>1, Multiples, SmallRemainders
<1>6. y \in Int /\ -w <= y /\ y <= w - 1
  BY <1>3
<1>7. y \in 0..(w - 1) \/ y \in (-w)..(-1)
  BY <1>6
<1>8. QED
  BY <1>4, <1>5, <1>7

(* The steps of Row keep its types, and only its own steps move it.        *)
LEMMA RowFacts ==
  ASSUME RowTypeOK,
         TimePasses \/ Exits \/ HandleSigchld \/ ReapZombie \/ WakeUp \/ Sleep
  PROVE  RowTypeOK' /\ pid' = pid /\ clock <= clock'
BY DEF RowAssumption, RowTypeOK, Steps, TimePasses, Exits, HandleSigchld,
       ReapZombie, WakeUp, Sleep

LEMMA InitIInv == Init => IInv
<1> SUFFICES ASSUME Init PROVE IInv
  OBVIOUS
<1>1. RowTypeOK
  BY DEF Init, RowInit, RowTypeOK, RowAssumption, Steps
<1>2. TypeOK
  BY <1>1 DEF Init, TypeOK, Cleared, NoReading, NothingYet, Truth,
              RowAssumption, StatisticsAssumption
<1>3. NoByteTwice /\ CpuFollows
  BY DEF Init, RowInit, NoByteTwice, CpuFollows, NothingYet
<1>4. QED
  BY <1>2, <1>3 DEF IInv
-----------------------------------------------------------------------------
(* The steps of the process and of the clock.                              *)
LEMMA ProcessIInv ==
  ASSUME IInv, Tick \/ Trace \/ ThreadsEnd \/ ProcessEnds
  PROVE  IInv'
<1> USE DEF IInv
<1>1. CASE Tick
  <2>1. RowTypeOK'
    BY <1>1, RowFacts DEF Tick, TypeOK
  <2>2. TypeOK'
    BY <1>1, <2>1 DEF Tick, byteVars, TypeOK
  <2>3. NoByteTwice' /\ CpuFollows'
    BY <1>1 DEF Tick, TimePasses, byteVars, NoByteTwice, CpuFollows, TypeOK, Truth
  <2>4. QED
    BY <2>2, <2>3
<1>2. CASE Trace
  <2>1. /\ actual'.bytes = actual.bytes + 1 /\ actual'.reported = actual.reported
        /\ actual'.spent = actual.spent /\ actual'.missed = actual.missed
        /\ actual'.missed_before = actual.missed_before
    BY <1>2 DEF Trace, TypeOK, Truth
  <2>2. NoByteTwice' /\ traced' \in 0..MaxBytes
    BY <1>2, <2>1 DEF Trace, NoByteTwice, TypeOK, Truth, StatisticsAssumption
  <2>3. actual' \in Truth
    BY <1>2 DEF Trace, TypeOK, Truth, StatisticsAssumption
  <2>4. TypeOK'
    BY <1>2, <2>2, <2>3 DEF Trace, rowVars, cpuVars, TypeOK, RowTypeOK
  <2>5. CpuFollows'
    BY <1>2, <2>1 DEF Trace, rowVars, cpuVars, CpuFollows
  <2>6. QED
    BY <2>2, <2>4, <2>5
<1>3. CASE ThreadsEnd
  <2>1. /\ actual' \in Truth
        /\ actual'.bytes = actual.bytes /\ actual'.reported = actual.reported
        /\ actual'.spent = actual.spent
        /\ actual'.missed = (actual.missed \/ step = "times")
        /\ actual'.missed_before = actual.missed_before
    BY <1>3 DEF ThreadsEnd, TypeOK, Truth
  <2>2. TypeOK'
    BY <1>3, <2>1 DEF ThreadsEnd, rowVars, byteVars, TypeOK, RowTypeOK
  <2>3. NoByteTwice'
    BY <1>3, <2>1 DEF ThreadsEnd, byteVars, NoByteTwice
  <2>4. CpuFollows'
    BY <1>3, <2>1 DEF ThreadsEnd, rowVars, CpuFollows, TypeOK, Truth
  <2>5. QED
    BY <2>2, <2>3, <2>4
<1>4. CASE ProcessEnds
  <2>1. RowTypeOK'
    BY <1>4, RowFacts DEF ProcessEnds, TypeOK
  <2>2. TypeOK'
    BY <1>4, <2>1 DEF ProcessEnds, cpuVars, byteVars, TypeOK
  <2>3. NoByteTwice' /\ CpuFollows'
    BY <1>4 DEF ProcessEnds, Exits, HandleSigchld, cpuVars, byteVars, NoByteTwice,
                CpuFollows
  <2>4. QED
    BY <2>2, <2>3
<1>5. QED
  BY <1>1, <1>2, <1>3, <1>4

(* The steps of a pass that do not sample.                                 *)
LEMMA PassIInv ==
  ASSUME IInv, PassGoesOn \/ Start \/ Skip
  PROVE  IInv'
<1> USE DEF IInv
<1>1. CASE PassGoesOn
  <2>1. RowTypeOK'
    <3>1. CASE step = "converge" /\ step' = "work"
               /\ UNCHANGED <<clock, pid, child>>
      BY <3>1 DEF TypeOK, RowTypeOK, Steps
    <3>2. QED
      BY <1>1, <3>1, RowFacts DEF PassGoesOn, TypeOK
  <2>2. TypeOK'
    BY <1>1, <2>1 DEF PassGoesOn, cpuVars, byteVars, TypeOK
  <2>3. NoByteTwice' /\ CpuFollows'
    BY <1>1 DEF PassGoesOn, ReapZombie, Sleep, WakeUp, cpuVars, byteVars,
                NoByteTwice, CpuFollows
  <2>4. QED
    BY <2>2, <2>3
<1>2. CASE Start
  <2>1. RowTypeOK'
    BY <1>2 DEF Start, NewInstance, TypeOK, RowTypeOK, RowAssumption, Steps
  <2>2. TypeOK'
    BY <1>2, <2>1 DEF Start, TypeOK, Cleared, NothingYet, Truth,
                      RowAssumption, StatisticsAssumption
  <2>3. NoByteTwice' /\ CpuFollows'
    BY <1>2 DEF Start, Cleared, NothingYet, NoByteTwice, CpuFollows
  <2>4. QED
    BY <2>2, <2>3
<1>3. CASE Skip
  <2>1. TypeOK'
    BY <1>3 DEF Skip, cpuVars, byteVars, TypeOK, RowTypeOK, Steps
  <2>2. NoByteTwice' /\ CpuFollows'
    BY <1>3 DEF Skip, cpuVars, byteVars, NoByteTwice, CpuFollows
  <2>3. QED
    BY <2>1, <2>2
<1>4. QED
  BY <1>1, <1>2, <1>3
-----------------------------------------------------------------------------
(* The steps of a sample.                                                  *)
LEMMA WorkIInv == ASSUME IInv, Work PROVE IInv'
<1> USE DEF IInv
<1> DEFINE delta == (clock - sample.time) % Word
<1>1. /\ clock \in Nat /\ clock <= Horizon /\ sample.time \in Int
      /\ Word \in Nat \ {0}
  BY DEF TypeOK, RowTypeOK, RowAssumption, StatisticsAssumption
<1>2. delta \in 0..(Word - 1)
  <2>1. clock - sample.time \in Int
    BY <1>1
  <2>2. QED
    BY <1>1, <2>1, RemainderFacts
<1>3. reading' = [time |-> clock, delta |-> delta, ended |-> 0, told |-> FALSE]
  BY DEF Work, NoReading
<1>4. NoByteTwice'
  BY DEF Work, Consume, byteVars, NoByteTwice, TypeOK, Truth
<1>5. counter' \in 0..MaxBytes /\ traced' \in 0..MaxBytes
  <2>1. counter' \in Nat /\ traced' \in Nat /\ counter' <= counter + traced
                         /\ traced' <= traced
    BY DEF Work, Consume, byteVars, TypeOK
  <2>2. counter + traced <= MaxBytes /\ traced <= MaxBytes
    BY DEF NoByteTwice, TypeOK, Truth, StatisticsAssumption
  <2>3. QED
    BY <2>1, <2>2 DEF StatisticsAssumption, TypeOK
<1>6. RowTypeOK'
  BY DEF Work, TypeOK, RowTypeOK, Steps
<1>7. TypeOK'
  <2> HIDE DEF delta
  <2>1. reading' \in [time : 0..Horizon, delta : 0..(Word - 1), ended : Nat,
                      told : BOOLEAN]
    BY <1>1, <1>2, <1>3 DEF RowAssumption
  <2>2. UNCHANGED <<live, ended, sample, actual>>
    BY DEF Work, cpuVars
  <2>3. QED
    BY <1>5, <1>6, <2>1, <2>2 DEF TypeOK
<1>8. CpuFollows'
  BY DEF Work, cpuVars, CpuFollows
<1>9. QED
  BY <1>4, <1>7, <1>8

LEMMA TaskBasicInfoIInv == ASSUME IInv, TaskBasicInfo PROVE IInv'
<1> USE DEF IInv
<1>1. TypeOK'
  BY DEF TaskBasicInfo, cpuVars, byteVars, TypeOK, RowTypeOK, Steps
<1>2. NoByteTwice'
  BY DEF TaskBasicInfo, byteVars, NoByteTwice
<1>3. CpuFollows'
  BY DEF TaskBasicInfo, cpuVars, CpuFollows, TypeOK
<1>4. QED
  BY <1>1, <1>2, <1>3

(* The figures of a new sample, in their words.                            *)
LEMMA RoundedFacts ==
  ASSUME NEW n \in Nat, NEW d \in Nat
  PROVE  Rounded(n, d) \subseteq 0..(HalfWord - 1)
<1>1. CASE d = 0
  BY <1>1 DEF Rounded, StatisticsAssumption
<1>2. CASE d # 0
  <2>1. 200 * n + d \in Nat /\ 2 * d \in Nat \ {0}
    BY <1>2
  <2>2. Percent(n, d) \in Int
    BY <2>1, QuotientFacts DEF Percent
  <2>3. Percent(n, d) % HalfWord \in 0..(HalfWord - 1)
    BY <2>2, RemainderFacts DEF StatisticsAssumption
  <2>4. QED
    BY <1>2, <2>3 DEF Rounded
<1>3. QED
  BY <1>1, <1>2

LEMMA TotalFacts ==
  ASSUME TypeOK
  PROVE  /\ Total \in 0..(Word - 1)
         /\ (Total - sample.total) % Word \in Nat
<1>1. /\ Word \in Nat \ {0} /\ sample.total \in Nat
      /\ live + reading.ended \in Int
  BY DEF TypeOK, RowAssumption, StatisticsAssumption
<1>2. (live + reading.ended) % Word \in 0..(Word - 1)
  BY <1>1, RemainderFacts
<1>3. 0 \in 0..(Word - 1)
  BY <1>1
<1>4. Total \in 0..(Word - 1)
  BY <1>2, <1>3 DEF Total
<1>5. Total - sample.total \in Int
  BY <1>1, <1>4
<1>6. (Total - sample.total) % Word \in 0..(Word - 1)
  BY <1>1, <1>5, RemainderFacts
<1>7. QED
  BY <1>1, <1>4, <1>6

LEMMA RateFacts ==
  ASSUME TypeOK
  PROVE  Rate \in 0..counter /\ Rate * DeltaInSeconds \in 0..counter
<1>1. /\ Second \in Nat \ {0} /\ HalfWord \in Nat \ {0}
      /\ counter \in Nat /\ reading.delta \in Nat
  BY DEF TypeOK, RowAssumption, StatisticsAssumption
<1>2. DeltaInSeconds \in Nat \ {0}
  <2>1. Seconds(reading.delta) \in Int
    BY <1>1, QuotientFacts DEF Seconds
  <2>2. Seconds(reading.delta) % HalfWord \in 0..(HalfWord - 1)
    BY <1>1, <2>1, RemainderFacts
  <2>3. QED
    BY <1>1, <2>2 DEF DeltaInSeconds
<1>3. QED
  BY <1>1, <1>2, QuotientFacts DEF Rate

LEMMA NewSampleFacts ==
  ASSUME TypeOK, NEW s \in NewSamples
  PROVE  /\ s \in [time : 0..Horizon, total : 0..(Word - 1),
                   cpu : 0..(HalfWord - 1), rate : 0..counter]
         /\ s.cpu \in CpuUsages /\ s.total = Total
<1>1. PICK c \in CpuUsages :
         s = [time |-> reading.time, total |-> Total, cpu |-> c, rate |-> Rate]
  BY DEF NewSamples
<1>2. reading.time \in 0..Horizon /\ reading.delta \in Nat
  BY DEF TypeOK, StatisticsAssumption
<1>3. c \in 0..(HalfWord - 1)
  <2>1. Rounded((Total - sample.total) % Word, reading.delta)
          \subseteq 0..(HalfWord - 1)
    BY <1>2, TotalFacts, RoundedFacts
  <2>2. 0 \in 0..(HalfWord - 1)
    BY DEF StatisticsAssumption
  <2>3. QED
    BY <2>1, <2>2 DEF CpuUsages
<1>4. QED
  BY <1>1, <1>2, <1>3, TotalFacts, RateFacts

LEMMA TaskThreadTimesIInv == ASSUME IInv, TaskThreadTimes PROVE IInv'
<1> USE DEF IInv
<1> DEFINE bytes == Rate * DeltaInSeconds
<1>1. /\ sample' \in [time : 0..Horizon, total : 0..(Word - 1),
                      cpu : 0..(HalfWord - 1), rate : 0..counter]
      /\ sample'.total = Total
      /\ bytes \in 0..counter
  BY NewSampleFacts, RateFacts DEF TaskThreadTimes
<1> HIDE DEF bytes
<1>2. /\ actual' = [actual EXCEPT !.reported = @ + bytes,
                                  !.spent = live + ended,
                                  !.missed_before = actual.missed,
                                  !.missed = FALSE]
      /\ reading' = NoReading /\ counter' = 0
      /\ step = "times" /\ step' = "entry"
      /\ UNCHANGED <<clock, pid, child, live, ended, traced>>
  BY DEF TaskThreadTimes, Accounted, cpuVars, bytes
<1>3. /\ counter \in 0..MaxBytes /\ MaxBytes \in Nat /\ live + ended \in Nat
      /\ bytes \in Nat
  BY <1>1 DEF TypeOK, StatisticsAssumption
<1>4. /\ actual' \in Truth
      /\ actual'.bytes = actual.bytes
      /\ actual'.reported = actual.reported + bytes
      /\ actual'.spent = live + ended
      /\ actual'.missed_before = actual.missed
  <2>1. actual \in [bytes : 0..MaxBytes, reported : Nat, spent : Nat,
                    missed : BOOLEAN, missed_before : BOOLEAN]
    BY DEF TypeOK, Truth
  <2>2. actual.reported + bytes \in Nat
    BY <1>3, <2>1
  <2> HIDE DEF IInv
  <2>3. QED
    BY <1>2, <1>3, <2>1, <2>2 DEF Truth
<1>5. sample' \in [time : 0..Horizon, total : 0..(Word - 1),
                   cpu : 0..(HalfWord - 1), rate : 0..MaxBytes]
  BY <1>1, <1>2, <1>3
<1>6. NoReading \in [time : 0..Horizon, delta : 0..(Word - 1), ended : Nat,
                     told : BOOLEAN]
  BY DEF NoReading, RowAssumption, StatisticsAssumption
<1>7. RowTypeOK'
  BY <1>2 DEF TypeOK, RowTypeOK, Steps
<1>8. TypeOK'
  BY <1>2, <1>3, <1>4, <1>5, <1>6, <1>7 DEF TypeOK
<1>9. NoByteTwice'
  BY <1>1, <1>2, <1>3, <1>4 DEF NoByteTwice, TypeOK, Truth
<1>10. CpuFollows'
  <2>1. actual'.spent <= live' + ended'
    BY <1>2, <1>3, <1>4
  <2>2. ASSUME child = "up", ~actual.missed
        PROVE  sample'.total = (live + ended) % Word
    BY <1>1, <1>2, <2>2 DEF CpuFollows, Total, Told
  <2>3. QED
    BY <1>2, <1>4, <2>1, <2>2 DEF CpuFollows
<1>11. QED
  BY <1>8, <1>9, <1>10
-----------------------------------------------------------------------------
LEMMA NextIInv == IInv /\ [Next]_vars => IInv'
<1> SUFFICES ASSUME IInv, [Next]_vars PROVE IInv'
  OBVIOUS
<1>1. CASE UNCHANGED vars
  BY <1>1 DEF vars, rowVars, cpuVars, byteVars, IInv, TypeOK, RowTypeOK,
              NoByteTwice, CpuFollows
<1>2. CASE Next
  BY <1>1, <1>2, ProcessIInv, PassIInv, WorkIInv, TaskBasicInfoIInv,
     TaskThreadTimesIInv DEF Next, Over
<1>3. QED
  BY <1>1, <1>2

THEOREM InductiveInvariant == Spec => []IInv
BY InitIInv, NextIInv, PTL DEF Spec

(* The figures stay in their words, those of a sample whose clock has not  *)
(* moved since the one before included (fiveman_sample_info).              *)
THEOREM FiguresInRange == Spec => []TypeOK
<1>1. IInv => TypeOK
  BY DEF IInv
<1>2. QED
  BY <1>1, InductiveInvariant, PTL

(* However the samples fall, the rates of fiveman_sample_info account for  *)
(* no byte twice: what is lost to rounding or to a sample without an       *)
(* answer is lost, but nothing is counted again.                           *)
THEOREM BytesCountedOnce == Spec => []NoByteTwice
<1>1. IInv => NoByteTwice
  BY DEF IInv
<1>2. QED
  BY <1>1, InductiveInvariant, PTL
-----------------------------------------------------------------------------
(* A later total, a larger percentage.                                     *)
LEMMA PercentGrows ==
  ASSUME NEW m \in Nat, NEW n \in Nat, m <= n, NEW d \in Nat \ {0}
  PROVE  /\ Percent(m, d) \in Nat /\ Percent(m, d) <= Percent(n, d)
<1> DEFINE a == 200 * m + d
           b == 200 * n + d
           c == 2 * d
<1>1. a \in Nat /\ b \in Nat /\ c \in Nat \ {0} /\ a <= b
  OBVIOUS
<1>2. Percent(m, d) = a \div c /\ Percent(n, d) = b \div c
  BY DEF Percent
<1> HIDE DEF a, b, c
<1>3. a \div c \in Nat /\ a \div c <= b \div c
  BY <1>1, QuotientGrows, Division
<1>4. QED
  BY <1>2, <1>3

LEMMA SampleCpu ==
  ASSUME IInv, step = "times", ~actual.missed, ~actual.missed_before,
         reading.delta # 0, NEW s \in NewSamples
  PROVE  s.cpu <= Percent(live + ended - actual.spent, reading.delta)
<1>1. /\ Word \in Nat \ {0} /\ HalfWord \in Nat \ {0}
      /\ live \in Nat /\ ended \in Nat /\ actual.spent \in Nat
      /\ actual.spent <= live + ended
      /\ reading.delta \in Nat \ {0} /\ sample.time \in Nat
  BY DEF IInv, TypeOK, Truth, CpuFollows, RowAssumption, StatisticsAssumption
<1> DEFINE spent == live + ended - actual.spent
           used == (((live + ended) % Word) - (actual.spent % Word)) % Word
<1>c. s.cpu \in CpuUsages
  BY NewSampleFacts DEF IInv
<1> SUFFICES s.cpu <= Percent(spent, reading.delta)
  OBVIOUS
<1>2. used \in Nat /\ used <= spent /\ spent \in Nat
  <2> DEFINE now == live + ended
             before == actual.spent
  <2>1. now \in Nat /\ before \in Nat /\ before <= now
    BY <1>1
  <2>2. spent = now - before
    BY <1>1
  <2>3. used = ((now % Word) - (before % Word)) % Word
    OBVIOUS
  <2> HIDE DEF now, before, used, spent
  <2>4. used <= spent
    BY <1>1, <2>1, <2>2, <2>3, WordDifference
  <2>5. now % Word \in Int /\ before % Word \in Int
    BY <1>1, <2>1, Division
  <2>6. (now % Word) - (before % Word) \in Int
    BY <2>5
  <2>7. used \in 0..(Word - 1)
    BY <1>1, <2>3, <2>6, RemainderFacts
  <2>8. QED
    BY <1>1, <2>1, <2>2, <2>4, <2>7
<1>3. CASE Told /\ sample.time > 0
  <2>1. /\ reading.ended = ended
        /\ sample.total = actual.spent % Word
    BY <1>3 DEF IInv, CpuFollows, Told
  <2>2. s.cpu = Percent(used, reading.delta) % HalfWord
    BY <1>c, <1>3, <2>1 DEF CpuUsages, Rounded, Total
  <2> HIDE DEF used, spent
  <2>3. Percent(used, reading.delta) \in Nat
        /\ Percent(used, reading.delta) <= Percent(spent, reading.delta)
        /\ Percent(spent, reading.delta) \in Nat
    BY <1>1, <1>2, PercentGrows
  <2>4. /\ Percent(used, reading.delta) % HalfWord \in Nat
        /\ Percent(used, reading.delta) % HalfWord
             <= Percent(used, reading.delta)
    BY <1>1, <2>3, Division
  <2>5. QED
    BY <2>2, <2>3, <2>4
<1>4. CASE ~(Told /\ sample.time > 0)
  <2>1. s.cpu = 0
    BY <1>c, <1>4 DEF CpuUsages
  <2>2. Percent(spent, reading.delta) \in Nat
    BY <1>1, <1>2, PercentGrows
  <2> HIDE DEF spent
  <2>3. QED
    BY <2>1, <2>2
<1>5. QED
  BY <1>3, <1>4

(* Where the clock has moved since, the CPU figure of fiveman_sample_info  *)
(* never shows more than the instance has used since it was sampled last,  *)
(* whatever the words of the totals hold: a total that has wrapped does    *)
(* not matter, nor does one of an instance before.                         *)
THEOREM CpuOfInstance == Spec => CpuIsOwn
<1>1. ASSUME IInv, [Next]_vars
      PROVE  [step = "times" =>
                \/ step' = "times" \/ actual.missed \/ actual.missed_before
                \/ reading.delta = 0
                \/ sample'.cpu <= Percent(live + ended - actual.spent,
                                          reading.delta)]_vars
  <2>1. CASE TaskThreadTimes
    BY <1>1, <2>1, SampleCpu DEF TaskThreadTimes
  <2>2. CASE Tick \/ Trace \/ ThreadsEnd \/ ProcessEnds
    BY <2>2 DEF Tick, TimePasses, Trace, ThreadsEnd, ProcessEnds, Exits,
                HandleSigchld, rowVars
  <2>3. CASE PassGoesOn \/ Start \/ Work \/ Skip \/ TaskBasicInfo
    BY <2>3 DEF PassGoesOn, ReapZombie, Sleep, WakeUp, Start, Work, Skip,
                TaskBasicInfo
  <2>4. CASE Over \/ UNCHANGED vars
    BY <2>4 DEF Over
  <2>5. QED
    BY <1>1, <2>1, <2>2, <2>3, <2>4 DEF Next
<1>2. QED
  BY <1>1, InductiveInvariant, PTL DEF Spec, CpuIsOwn
=============================================================================
