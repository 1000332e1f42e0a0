--------------------------- MODULE ResultConverter ---------------------------
(***************************************************************************)
(* ComponentResultToDictConverter of mpf_cli_job_runner.py: what a         *)
(* component returns, as the tracks that are written out.  A track has a   *)
(* start frame, a confidence, and the detections it keeps by frame, in the *)
(* order the component added them.                                         *)
(***************************************************************************)
EXTENDS Integers, Sequences, FiniteSets, Functions

\* What a component returns; only the order of confidences and frames matters.
Detections == [frame : Int, confidence : Int]
Tracks == [start : Int, confidence : Int, locations : Seq(Detections)]

\* max(serialized, key=confidence, default=None): the first of the greatest.
MostConfident(s) ==
    IF s = <<>> THEN <<>>
    ELSE <<s[CHOOSE i \in DOMAIN s : \A k \in DOMAIN s :
                 s[k].confidence < s[i].confidence
                     \/ (s[k].confidence = s[i].confidence /\ i <= k)]>>

\* list.sort is stable: what does not go before, by its key, stays where it was.
StableOrder(before, n) ==
    {p \in (1..n) \X (1..n) :
        p \in before \/ (<<p[2], p[1]>> \notin before /\ p[1] < p[2])}

\* Where the element i of n goes.
Rank(order, n, i) == Cardinality({k \in 1..n : <<k, i>> \in order}) + 1

StableSort(s, before) ==
    LET order == StableOrder(before, Len(s))
    IN  [r \in DOMAIN s |-> s[CHOOSE i \in DOMAIN s : Rank(order, Len(s), i) = r]]

\* The keys of a dict of detections by frame are distinct: the frame decides.
ByFrame(s) == {p \in (DOMAIN s) \X (DOMAIN s) : s[p[1]].frame < s[p[2]].frame}

TrackBefore(t, u) ==
    t.start < u.start \/ (t.start = u.start /\ t.confidence < u.confidence)
ByStart(s) == {p \in (DOMAIN s) \X (DOMAIN s) : TrackBefore(s[p[1]], s[p[2]])}

\* Mutated TrackDict: the exemplar is chosen before the detections are sorted.
TrackDict_ExemplarFirst(t) ==
    [start |-> t.start, confidence |-> t.confidence,
     detections |-> StableSort(t.locations, ByFrame(t.locations)),
     exemplar |-> MostConfident(t.locations)]

TrackDict(t) ==
    LET sorted == StableSort(t.locations, ByFrame(t.locations))
    IN  [start |-> t.start, confidence |-> t.confidence,
         detections |-> sorted, exemplar |-> MostConfident(sorted)]

Convert(tracks) ==
    LET dicts == [i \in DOMAIN tracks |-> TrackDict(tracks[i])]
    IN  StableSort(dicts, ByStart(dicts))

-----------------------------------------------------------------------------
(* What dicts owes to tracks                                                *)

\* s has the elements of t, each as often, in some order.
Rearranges(s, t) ==
    /\ Len(s) = Len(t)
    /\ \E place \in Bijection(DOMAIN s, DOMAIN t) : \A i \in DOMAIN s : s[i] = t[place[i]]

\* A track is written as it is: each of its detections once and in the order of
\* their frames, and as the exemplar that one of them which no other exceeds in
\* confidence, and none as confident precedes.  Only a track without detections
\* has no exemplar.
Exemplary(dict, t) ==
    /\ dict.start = t.start /\ dict.confidence = t.confidence
    /\ Rearranges(dict.detections, t.locations)
    /\ \A i, k \in DOMAIN dict.detections :
           i < k => dict.detections[i].frame <= dict.detections[k].frame
    /\ \/ t.locations = <<>> /\ dict.exemplar = <<>>
       \/ \E e \in Range(t.locations) :
              /\ dict.exemplar = <<e>>
              /\ \A d \in Range(t.locations) :
                     \/ d.confidence < e.confidence
                     \/ d.confidence = e.confidence /\ e.frame <= d.frame

\* Every track is written once, in the order of the tracks' keys.
Faithful(dicts, tracks) ==
    /\ Len(dicts) = Len(tracks)
    /\ \A i, k \in DOMAIN dicts : i < k => ~TrackBefore(dicts[k], dicts[i])
    /\ \E place \in Bijection(DOMAIN dicts, DOMAIN tracks) :
           \A i \in DOMAIN dicts : Exemplary(dicts[i], tracks[place[i]])

=============================================================================
