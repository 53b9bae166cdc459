----------------------------- MODULE AckRanges -----------------------------
(***************************************************************************)
(* The encoding of ACK messages: getAckInfo and #clearAckInfo              *)
(* (src/channel-flow-control.esm.js) and the range count of the ACK header *)
(* (src/protocol.esm.js).  An ACK is a base sequence and a list of counts, *)
(* alternately of sequences to include and to skip after it.  A count is   *)
(* one byte, so larger ones are split with 0-continuations, and a message  *)
(* carries at most MaxRanges counts (255 and 501 in the code; the module   *)
(* is parameterised so that small numbers reach every boundary).           *)
(* Module AckExchange checks what the two ends make of it.                 *)
(***************************************************************************)
EXTENDS Integers, Sequences, FiniteSets, SequencesExt

CONSTANTS
    MaxCount,    \* largest count of one range (255)
    MaxRanges    \* MAX_ACK_RANGES (501)

ASSUME CountAssumption == MaxCount \in Nat \ {0}
ASSUME RangesAssumption == MaxRanges \in Nat /\ MaxRanges % 2 = 1

----------------------------------------------------------------------------
(* getAckInfo. *)

(* addCount on the list under construction: count is split into full       *)
(* ranges with 0-continuations while two more fit, and what remains takes  *)
(* one more range if it fits.  "length" is where an include last ended.    *)
Splits(free, count) ==
    Min({IF count = 0 THEN 0 ELSE (count - 1) \div MaxCount, free \div 2})
Continuations(n) == [i \in 1 .. 2 * n |-> IF i % 2 = 1 THEN MaxCount ELSE 0]

MutOverwritesRest(list, count, isInclude) ==
    LET splits == Splits(MaxRanges - Len(list.ranges), count)
        split == list.ranges \o Continuations(splits)
        fits == Len(split) < MaxRanges
        ranges == IF fits THEN Append(split, Min({count, MaxCount})) ELSE split
    IN  [ranges |-> ranges,
         length |-> IF isInclude THEN Len(ranges) - (IF fits THEN 0 ELSE 1) ELSE list.length,
         ok |-> fits]

AddCount(list, count, isInclude) ==
    LET splits == Splits(MaxRanges - Len(list.ranges), count)
        rest == count - splits * MaxCount
        split == list.ranges \o Continuations(splits)
        fits == Len(split) < MaxRanges
        ranges == IF fits THEN Append(split, Min({rest, MaxCount})) ELSE split
    IN  [ranges |-> ranges,
         length |-> IF ~isInclude \/ (~fits /\ splits = 0) THEN list.length
                    ELSE IF fits THEN Len(ranges) ELSE Len(ranges) - 1,
         ok |-> fits /\ rest <= MaxCount]

(* One step of the loop over the processed sequences: extend the run, or   *)
(* flush it and skip the gap; the loop ends once the ranges are full.      *)
Extend(run, sequence) ==
    LET gap == sequence - run.sequential
        flushed == AddCount(run.list, run.additional, TRUE)
        skipped == AddCount(flushed, gap, FALSE)
    IN  IF ~run.list.ok THEN run
        ELSE IF gap = 0 THEN [run EXCEPT !.additional = @ + 1, !.sequential = sequence + 1]
        ELSE IF ~flushed.ok THEN [run EXCEPT !.list = flushed]
        ELSE IF ~skipped.ok THEN [run EXCEPT !.list = skipped]
        ELSE [list |-> skipped, additional |-> 1, sequential |-> sequence + 1]

(* readAckInfo is a Map filled in order of sequence. *)
InOrder(S) == [i \in 1 .. Cardinality(S) |->
                  CHOOSE s \in S : Cardinality({t \in S : t < s}) = i - 1]

GetAckInfo(processed) ==
    LET order == InOrder(processed)
        base == Head(order)
        start == [list |-> [ranges |-> <<>>, length |-> 0, ok |-> TRUE],
                  additional |-> 0, sequential |-> base + 1]
        end == FoldLeft(Extend, start, Tail(order))
        last == IF end.additional # 0 THEN AddCount(end.list, end.additional, TRUE)
                ELSE end.list
    IN  IF Len(order) = 1 THEN [base |-> base, ranges |-> <<>>, complete |-> TRUE]
        ELSE [base |-> base, ranges |-> SubSeq(last.ranges, 1, last.length),
              complete |-> end.list.ok /\ last.ok]

----------------------------------------------------------------------------
(* #clearAckInfo: the base always, then the included runs. *)
Sum(counts) == FoldLeft(+, 0, counts)
MutForgetsBase(base, ranges) ==
    LET before(i) == base + Sum(SubSeq(ranges, 1, i - 1))
    IN  UNION {before(i) + 1 .. before(i) + ranges[i] :
                 i \in {j \in DOMAIN ranges : j % 2 = 1}}
Covered(base, ranges) ==
    LET before(i) == base + Sum(SubSeq(ranges, 1, i - 1))
    IN  {base} \cup UNION {before(i) + 1 .. before(i) + ranges[i] :
                              i \in {j \in DOMAIN ranges : j % 2 = 1}}

(* encodeAckHeaderInto and decodeAckHeaderFrom keep the number of ranges   *)
(* as a number of includes, so an even number would not survive.           *)
IncludeCount(rangeCount) == IF rangeCount = 0 THEN 0 ELSE (rangeCount + 1) \div 2
RangeCount(includeCount) == IF includeCount = 0 THEN 0 ELSE includeCount * 2 - 1
Transmitted(ack) ==
    [base |-> ack.base,
     ranges |-> [i \in 1 .. RangeCount(IncludeCount(Len(ack.ranges))) |->
                    IF i <= Len(ack.ranges) THEN ack.ranges[i] ELSE 0]]
============================================================================
