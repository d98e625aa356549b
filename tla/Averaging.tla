------------------------------ MODULE Averaging -------------------------------
(* The temporal operation of a field: a filter takes a sample of the field   *)
(* every freq_op and gives a result every output_freq. The model may ask at  *)
(* each date whether the filter expects data (isDataExpected), and send      *)
(* nothing when it does not: a second copy of the filter is fed that way.    *)
(*                                                                           *)
(* Dates count the time steps since the first date of the calendar; a sample *)
(* is named by its date, and one point of the grid is followed, where the    *)
(* data of some dates are missing.                                           *)
EXTENDS Integers, Sequences, FiniteSets

CONSTANTS Operations,  \* among "average", "instant", "once"
          SamplingFreqs, OpFreqs, Offsets, LastDate

AveragingAssumption ==
  /\ Operations \subseteq {"average", "instant", "once"}
  /\ SamplingFreqs \cup OpFreqs \subseteq Nat \ {0} /\ Offsets \subseteq Nat

VARIABLES op,       \* the attributes of the field: [operation, sampling, freq, offset]
          date,
          missing,  \* the dates at which the point has no value
          full,     \* the filter that is sent the data of every date
          lazy      \* the one that is sent data when it expects some

vars == <<op, date, missing, full, lazy>>

(* The state of the filter and of its functor: the samples summed in         *)
(* tmpData, how many calls and how many values of the point that makes, and  *)
(* the results given so far.                                                 *)
NewFilter(o) ==
  [nextSampling |-> o.offset + 1, nbSampling |-> 0, nbOperation |-> 1,
   first |-> TRUE, sum |-> {}, nbcall |-> 0, nbcalls |-> 0, results |-> <<>>]

Init ==
  /\ op \in [operation : Operations, sampling : SamplingFreqs,
             freq : OpFreqs, offset : Offsets]
  /\ op.sampling <= op.freq
  /\ date = 0 /\ missing = {}
  /\ full = NewFilter(op) /\ lazy = NewFilter(op)

-----------------------------------------------------------------------------
UsesPacket(f, d) ==
  IF op.operation = "once" THEN f.first ELSE d >= f.nextSampling

(* (a slip: the first sampling date forgotten)                               *)
EndsPeriodEarly(f, d) ==
  IF op.operation = "once" THEN f.first
  ELSE d >= f.nbOperation * op.freq - op.sampling + op.offset

(* (a slip: a result needs a sample of the same date)                        *)
EndsWithSample(f, d) ==
  /\ UsesPacket(f, d)
  /\ op.operation # "once" => d > f.nbOperation * op.freq - op.sampling + op.offset

EndsPeriod(f, d) ==
  IF op.operation = "once" THEN f.first
  ELSE d > f.nbOperation * op.freq - op.sampling + op.offset

(* (a slip: a result is thought to come with a sample)                       *)
ExpectsSamples(f, d) == UsesPacket(f, d)

(* CTemporalFilter::isDataExpected.                                          *)
IsDataExpected(f, d) == UsesPacket(f, d) \/ EndsPeriod(f, d)

(* The functor is called on the data of d: the first call of a period copies *)
(* them, the next ones add them, but missing values.                         *)
Value(d, gone) == IF d \in gone THEN {} ELSE {d}

Call(f, d, gone) ==
  IF op.operation = "average"
  THEN [f EXCEPT !.nbcall = @ + 1,
                 !.sum = IF f.nbcall = 0 THEN Value(d, gone) ELSE @ \cup Value(d, gone),
                 !.nbcalls = @ + Cardinality(Value(d, gone))]
  ELSE [f EXCEPT !.nbcall = @ + 1, !.sum = Value(d, gone),
                 !.nbcalls = Cardinality(Value(d, gone))]

(* (a slip: the functor goes on from the period before)                      *)
FinalKeeps(f) == f

(* CFunctor::final and CAverage::final: the next period starts from nothing. *)
Final(f) == [f EXCEPT !.nbcall = 0, !.nbcalls = 0]

NextSampling(f, d) == (f.nbSampling + 1) * op.sampling + op.offset + 1

(* CTemporalFilter::apply. When the operation is instantaneous, or made once *)
(* only, the packet itself is the result.                                    *)
Apply(f, d, gone) ==
  LET use == UsesPacket(f, d)
      end == EndsPeriod(f, d)
      copyLess == op.operation # "average" /\ use /\ end
      g == IF ~use THEN f
           ELSE [IF copyLess THEN f ELSE Call(f, d, gone)
                   EXCEPT !.nbSampling = @ + 1, !.nextSampling = NextSampling(f, d)]
      result == IF copyLess THEN [of |-> Value(d, gone), over |-> Cardinality(Value(d, gone))]
                ELSE [of |-> g.sum, over |-> g.nbcalls]
      h == [g EXCEPT !.nbOperation = @ + 1, !.first = FALSE,
                     !.results = Append(@, [at |-> d, value |-> result])]
  IN IF ~end THEN g ELSE IF copyLess THEN h ELSE Final(h)

(* One date: the model sends the field, to the second filter only if it      *)
(* expects it, or by chance.                                                 *)
Step(gone, send) ==
  /\ date <= LastDate
  /\ send \/ ~IsDataExpected(lazy, date)
  /\ full' = Apply(full, date, gone)
  /\ lazy' = IF send THEN Apply(lazy, date, gone) ELSE lazy
  /\ missing' = gone
  /\ date' = date + 1
  /\ UNCHANGED op

Done == date > LastDate /\ UNCHANGED vars

Next ==
  \/ \E gone \in {missing, missing \cup {date}}, send \in BOOLEAN : Step(gone, send)
  \/ Done

Spec == Init /\ [][Next]_vars

-----------------------------------------------------------------------------
(* What the filter promises. The samples of a field are taken every sampling *)
(* period from the offset, and period n ends with its n-th operation date.   *)

SampleDates == {k * op.sampling + op.offset + 1 : k \in 0..LastDate}

End(n) == n * op.freq - op.sampling + op.offset + 1

Period(n) == {d \in SampleDates : End(n - 1) < d /\ d <= End(n)}

Latest(n) == {d \in Period(n) : \A e \in Period(n) : e <= d}

Expected(n) ==
  CASE op.operation = "once" -> {0} \ missing
    [] op.operation = "instant" -> Latest(n) \ missing
    [] OTHER -> Period(n) \ missing

TypeOK ==
  /\ date \in 0..LastDate + 1 /\ missing \subseteq 0..LastDate
  /\ \A f \in {full, lazy} :
       /\ f.nbcall \in Nat /\ f.nbcalls \in 0..f.nbcall
       /\ op.operation = "average" => f.nbcall \in 0..op.freq

(* The n-th result is given at the end of period n, from the values of its   *)
(* samples that are not missing, each of them once and no other, and divided *)
(* by their number (CTemporalFilter::apply, CAverage).                       *)
ResultsRight ==
  \A n \in DOMAIN full.results :
    LET r == full.results[n]
    IN /\ r.at = IF op.operation = "once" THEN 0 ELSE End(n)
       /\ r.value.of = Expected(n) /\ r.value.over = Cardinality(Expected(n))

(* No period is left without its result.                                     *)
NoneSkipped ==
  op.operation # "once" => \A n \in 1..LastDate : End(n) < date => n \in DOMAIN full.results

(* A model that sends its field only when the filter expects it gets the     *)
(* same results (CField::isActive, check_if_active).                         *)
LazyIsFull == lazy.results = full.results
=============================================================================
