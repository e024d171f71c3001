----------------------------- MODULE SequenceLemmas -----------------------------
(***************************************************************************)
(* What adding an entry at the end of a sequence, and taking one from its  *)
(* front, do to its entries.  The proofs of the other modules cite these   *)
(* for queues, logs and histories.                                         *)
(***************************************************************************)
EXTENDS Integers, Functions, SequenceTheorems, TLAPS

(* Appending keeps the entries and adds one at the end. *)
LEMMA AppendEntry ==
  ASSUME NEW S, NEW s \in Seq(S), NEW e \in S
  PROVE  /\ Append(s, e) \in Seq(S)
         /\ Len(s) \in Nat
         /\ Len(Append(s, e)) = Len(s) + 1
         /\ DOMAIN s = 1 .. Len(s)
         /\ DOMAIN Append(s, e) = 1 .. Len(s) + 1
         /\ DOMAIN Append(s, e) = DOMAIN s \cup {Len(s) + 1}
         /\ \A k \in DOMAIN s : Append(s, e)[k] = s[k] /\ k # Len(s) + 1
         /\ Append(s, e)[Len(s) + 1] = e
         /\ Range(Append(s, e)) = Range(s) \cup {e}
<1>1. /\ Append(s, e) \in Seq(S)
      /\ Len(Append(s, e)) = Len(s) + 1
      /\ \A k \in 1 .. Len(s) : Append(s, e)[k] = s[k]
      /\ Append(s, e)[Len(s) + 1] = e
  BY AppendProperties
<1>2. /\ Len(s) \in Nat
      /\ DOMAIN s = 1 .. Len(s)
      /\ DOMAIN Append(s, e) = 1 .. Len(s) + 1
  BY <1>1, LenProperties
<1>3. DOMAIN Append(s, e) = DOMAIN s \cup {Len(s) + 1}
  BY <1>2
<1>4. \A k \in DOMAIN s : Append(s, e)[k] = s[k] /\ k # Len(s) + 1
  BY <1>1, <1>2
<1>5. Range(Append(s, e)) = Range(s) \cup {e}
  BY <1>1, <1>3, <1>4, Zenon DEF Range
<1>. QED
  BY <1>1, <1>2, <1>3, <1>4, <1>5

(* Taking the first entry leaves the others, one place further up. *)
LEMMA TakeEntry ==
  ASSUME NEW S, NEW s \in Seq(S), s # <<>>
  PROVE  /\ Head(s) = s[1] /\ Head(s) \in S
         /\ 1 \in DOMAIN s
         /\ Tail(s) \in Seq(S)
         /\ Len(s) \in Nat \ {0} /\ Len(Tail(s)) = Len(s) - 1
         /\ \A k \in DOMAIN Tail(s) :
              k + 1 \in DOMAIN s /\ k \in Nat \ {0} /\ Tail(s)[k] = s[k + 1]
         /\ \A k \in DOMAIN s :
              k # 1 => k - 1 \in DOMAIN Tail(s) /\ Tail(s)[k - 1] = s[k]
         /\ Range(s) = Range(Tail(s)) \cup {Head(s)}
<1>1. /\ Head(s) \in S
      /\ Tail(s) \in Seq(S)
      /\ Len(Tail(s)) = Len(s) - 1
      /\ \A k \in 1 .. Len(Tail(s)) : Tail(s)[k] = s[k + 1]
  BY HeadTailProperties
<1>2. Len(s) \in Nat \ {0} /\ DOMAIN s = 1 .. Len(s)
  BY EmptySeq, LenProperties
<1>3. DOMAIN Tail(s) = 1 .. Len(Tail(s))
  BY <1>1, LenProperties
<1>4. Head(s) = s[1]
  OBVIOUS
<1>5. \A k \in DOMAIN Tail(s) : k + 1 \in DOMAIN s /\ k \in Nat \ {0} /\ Tail(s)[k] = s[k + 1]
  BY <1>1, <1>2, <1>3
<1>6. \A k \in DOMAIN s : k # 1 => k - 1 \in DOMAIN Tail(s) /\ Tail(s)[k - 1] = s[k]
  BY <1>1, <1>2, <1>3
<1>7. 1 \in DOMAIN s
  BY <1>2
<1>8. Range(s) = Range(Tail(s)) \cup {Head(s)}
  <2>1. ASSUME NEW k \in DOMAIN s PROVE s[k] \in {s[1]} \cup {Tail(s)[i] : i \in DOMAIN Tail(s)}
    BY <1>6, <2>1, Zenon
  <2>2. ASSUME NEW k \in DOMAIN Tail(s) PROVE Tail(s)[k] \in {s[i] : i \in DOMAIN s}
    BY <1>5, <2>2, Zenon
  <2>. QED
    BY <1>4, <1>7, <2>1, <2>2 DEF Range
<1>. QED
  BY <1>1, <1>2, <1>4, <1>5, <1>6, <1>7, <1>8
================================================================================
