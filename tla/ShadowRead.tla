----------------------------- MODULE ShadowRead -----------------------------
(***************************************************************************)
(* service_receive with a length limit.  Data comes off the rx ring as     *)
(* chains of segments; when a read ends inside a chain the rest is kept in *)
(* the local descriptor (shadow, shadow_next and two lengths) and the next *)
(* read starts with it.                                                    *)
(*                                                                         *)
(* A byte is its position in the stream, so a segment is the position of   *)
(* its first byte (data_off), its data_len and the buffer it is in, named  *)
(* by its first byte when it arrived.  Only the first segment of a chain   *)
(* has a meaningful pkt_len, the chain's length; that of a later one is    *)
(* whatever the buffer held before.  The application releases what it was  *)
(* given before it reads again, as the shadow may be part of it.           *)
(***************************************************************************)
EXTENDS Integers, Sequences

CONSTANTS
  MaxBytes,      \* bound: bytes that arrive
  MaxSegLen,     \* bound: length of a segment
  MaxSegs,       \* bound: segments in a chain
  MaxRing,       \* bound: chains waiting on the ring
  Limits         \* values of *total_len; 0 reads everything

ASSUME ReadAssumption ==
  Limits \subseteq Nat /\ {MaxBytes, MaxSegLen, MaxRing} \subseteq Nat /\ MaxSegs \in Nat \ {0}

VARIABLES
  rx,            \* rx ring and local cache: chains of segments
  arrived,       \* bytes that have arrived
  shadow,        \* << >>, or <<the shadow segment>>
  shadowNext,    \* shadow_next: a chain, possibly empty
  remainder,     \* shadow_len_remainder
  delivered,     \* shadow_len_delievered
  linked,        \* the shadow's own next pointer is still set
  announced,     \* the last service_receive posted a READABLE event to the selector
  held,          \* the application has not released what it was given last
  live,          \* buffers that are not in their pool
  before,        \* history: bytes given to the application before the last read
  result         \* what the last service_receive gave: chain, total_len, first_segment_len

fields == <<shadow, shadowNext, remainder, delivered, linked>>
vars == <<rx, arrived, fields, announced, held, live, before, result>>

Seg(p, n) == [at |-> p, len |-> n, buf |-> p]

Sum(ns) ==
  LET upTo[i \in 0 .. Len(ns)] == IF i = 0 THEN 0 ELSE upTo[i - 1] + ns[i]
  IN  upTo[Len(ns)]

Lens(chain) == [i \in DOMAIN chain |-> chain[i].len]
Total(chain) == Sum(Lens(chain))

Bufs(chain) == {chain[i].buf : i \in DOMAIN chain}

Nothing == [chain |-> << >>, total |-> 0, first |-> 0, limit |-> 0]

(* service_reset_local_descriptor *)

Init ==
  /\ rx = << >> /\ arrived = 0
  /\ shadow = << >> /\ shadowNext = << >> /\ remainder = 0 /\ delivered = 0
  /\ linked = FALSE /\ announced = FALSE /\ held = FALSE /\ live = {}
  /\ before = 0 /\ result = Nothing

(* service_submit_rx_buf: a chain of segments with the lengths lens.       *)

Chain(p, lens) ==
  [i \in DOMAIN lens |-> Seg(p + Sum(SubSeq(lens, 1, i - 1)), lens[i])]

Arrive(lens) ==
  /\ Len(rx) < MaxRing /\ arrived + Sum(lens) <= MaxBytes
  /\ rx' = Append(rx, Chain(arrived, lens))
  /\ arrived' = arrived + Sum(lens)
  /\ live' = live \cup Bufs(Chain(arrived, lens))
  /\ UNCHANGED <<fields, announced, held, before, result>>

----------------------------------------------------------------------------
(* The local descriptor's fields, as the functions below pass them on.     *)

Fields == [shadow |-> shadow, next |-> shadowNext, rem |-> remainder, del |-> delivered,
           linked |-> linked]

SetFields(f) ==
  /\ shadow' = f.shadow /\ shadowNext' = f.next
  /\ remainder' = f.rem /\ delivered' = f.del /\ linked' = f.linked

(* service_get_from_shadow: the chain that starts with the shadow, and the *)
(* pkt_len it gets.  That is computed before next is set: it leaves out    *)
(* shadow_next, or adds the pkt_len of the segment next still points to.   *)

FromShadowKeepsOffset ==
  <<[shadow[1] EXCEPT !.len = remainder]>> \o shadowNext

FromShadow ==
  <<[shadow[1] EXCEPT !.at = @ + delivered, !.len = remainder]>> \o shadowNext

ShadowPktLen == IF linked THEN remainder .. MaxBytes ELSE {remainder}

Unshadowed == [Fields EXCEPT !.shadow = << >>, !.next = << >>, !.linked = FALSE]

(* service_try_read_exact_amount on a chain, with the fields f: where the  *)
(* chain is cut, what is given, and what is kept.                          *)

Cut(chain, limit) ==
  {i \in DOMAIN chain : /\ Total(SubSeq(chain, 1, i)) >= limit
                        /\ Total(SubSeq(chain, 1, i - 1)) < limit}

TryRead(chain, limit, f) ==
  IF Cut(chain, limit) = {}
    THEN [chain |-> chain, total |-> Total(chain), first |-> chain[1].len, fields |-> f]
    ELSE
      LET i == CHOOSE j \in Cut(chain, limit) : TRUE
          more == Total(SubSeq(chain, 1, i)) - limit
          part == chain[i].len - more
          rest == SubSeq(chain, i + 1, Len(chain))
          after == SubSeq(chain, i + 2, Len(chain))
          short == [chain[i] EXCEPT !.len = part]
      IN IF more > 0
           THEN [chain |-> SubSeq(chain, 1, i - 1) \o <<short>>, total |-> limit,
                 first |-> part,
                 fields |-> [shadow |-> <<short>>, next |-> rest, rem |-> more, del |-> part,
                            linked |-> FALSE]]
           ELSE [chain |-> SubSeq(chain, 1, i), total |-> limit, first |-> chain[1].len,
                 fields |-> IF rest = << >> THEN f
                            ELSE [shadow |-> <<rest[1]>>, next |-> after,
                                  rem |-> IF after = << >> THEN f.rem ELSE after[1].len,
                                  del |-> IF after = << >> THEN f.del ELSE 0,
                                  linked |-> after # << >>]]

(* A rest that is kept is announced to the selector, if the socket has one *)
(* and its ring has room; nobody looks whether it had.                     *)

Announce == announced' \in IF shadow' # << >> THEN BOOLEAN ELSE {FALSE}

Give(chain, total, first, limit) ==
  /\ ~held /\ held' = TRUE /\ UNCHANGED live
  /\ before' = before + Total(result.chain)
  /\ result' = [chain |-> chain, total |-> total, first |-> first, limit |-> limit]

(* service_receive with a shadow and a limit: if the shadow was not enough *)
(* the next chain of the ring is read too.                                 *)

ShadowLimitedForgets(limit) ==
  LET one == TryRead(FromShadow, limit, Unshadowed)
      two == TryRead(rx[1], limit - one.total, one.fields)
      wants == one.total > 0 /\ one.total < limit
  IN
  /\ shadow # << >> /\ limit > 0
  /\ \/ /\ wants /\ rx # << >>
        /\ SetFields(one.fields)
        /\ Give(one.chain \o two.chain, one.total + two.total, one.first, limit)
        /\ rx' = Tail(rx)
     \/ /\ wants => rx = << >>
        /\ SetFields(one.fields)
        /\ Give(one.chain, IF wants THEN one.total ELSE limit, one.first, limit)
        /\ UNCHANGED rx
  /\ Announce
  /\ UNCHANGED arrived

ShadowLimitedOverreads(limit) ==
  LET one == TryRead(FromShadow, limit, Unshadowed)
      two == TryRead(rx[1], limit, one.fields)
      wants == one.total > 0 /\ one.total < limit
  IN
  /\ shadow # << >> /\ limit > 0
  /\ \/ /\ wants /\ rx # << >>
        /\ SetFields(two.fields)
        /\ Give(one.chain \o two.chain, one.total + two.total, one.first, limit)
        /\ rx' = Tail(rx)
     \/ /\ wants => rx = << >>
        /\ SetFields(one.fields)
        /\ Give(one.chain, IF wants THEN one.total ELSE limit, one.first, limit)
        /\ UNCHANGED rx
  /\ Announce
  /\ UNCHANGED arrived

ReceiveShadowLimited(limit) ==
  LET one == TryRead(FromShadow, limit, Unshadowed)
      two == TryRead(rx[1], limit - one.total, one.fields)
      wants == one.total > 0 /\ one.total < limit
  IN
  /\ shadow # << >> /\ limit > 0
  /\ \/ /\ wants /\ rx # << >>
        /\ SetFields(two.fields)
        /\ Give(one.chain \o two.chain, one.total + two.total, one.first, limit)
        /\ rx' = Tail(rx)
     \/ /\ wants => rx = << >>
        /\ SetFields(one.fields)
        /\ Give(one.chain, IF wants THEN one.total ELSE limit, one.first, limit)
        /\ UNCHANGED rx
  /\ Announce
  /\ UNCHANGED arrived

(* service_receive with a shadow and no limit. *)

ReceiveShadowAll ==
  LET more == IF rx = << >> THEN << >> ELSE rx[1] IN
  /\ shadow # << >>
  /\ SetFields(Unshadowed) /\ announced' = FALSE
  /\ \E len \in ShadowPktLen : Give(FromShadow \o more, len + Total(more), remainder, 0)
  /\ rx' = IF rx = << >> THEN rx ELSE Tail(rx)
  /\ UNCHANGED arrived

(* service_receive without a shadow. *)

ReceiveLimited(limit) ==
  LET one == TryRead(rx[1], limit, Fields) IN
  /\ shadow = << >> /\ rx # << >> /\ limit > 0
  /\ SetFields(one.fields)
  /\ Give(one.chain, one.total, one.first, limit)
  /\ rx' = Tail(rx)
  /\ Announce
  /\ UNCHANGED arrived

ReceiveAll ==
  /\ shadow = << >> /\ rx # << >>
  /\ Give(rx[1], Total(rx[1]), rx[1][1].len, 0)
  /\ rx' = Tail(rx) /\ announced' = FALSE
  /\ UNCHANGED <<arrived, fields>>

(* Nothing to read: service_receive returns -1 and changes nothing.        *)

Receive(limit) ==
  \/ ReceiveShadowLimited(limit) \/ ReceiveLimited(limit)
  \/ limit = 0 /\ (ReceiveShadowAll \/ ReceiveAll)

(* service_release_rx_buffer frees the segments of a chain one after the   *)
(* other, up to the one that is the shadow.                                *)

ReleaseAll ==
  /\ held /\ held' = FALSE
  /\ live' = live \ Bufs(result.chain)
  /\ UNCHANGED <<rx, arrived, fields, announced, before, result>>

Release ==
  LET chain == result.chain
      isShadow(i) == shadow # << >> /\ chain[i].buf = shadow[1].buf
      released == {i \in DOMAIN chain : \A j \in 1 .. i : ~isShadow(j)}
  IN
  /\ held /\ held' = FALSE
  /\ live' = live \ {chain[i].buf : i \in released}
  /\ UNCHANGED <<rx, arrived, fields, announced, before, result>>

SegLens == UNION {[1 .. n -> 1 .. MaxSegLen] : n \in 1 .. MaxSegs}

Next ==
  \/ \E lens \in SegLens : Arrive(lens)
  \/ \E limit \in Limits : Receive(limit)
  \/ Release

Spec == Init /\ [][Next]_vars

----------------------------------------------------------------------------
Segs == [at : 0 .. MaxBytes, len : 0 .. MaxSegLen, buf : 0 .. MaxBytes]

(* Every variable has its type. *)
TypeOK ==
  /\ rx \in Seq(Seq(Segs)) /\ arrived \in 0 .. MaxBytes
  /\ shadow \in Seq(Segs) /\ Len(shadow) <= 1 /\ shadowNext \in Seq(Segs)
  /\ remainder \in 0 .. MaxSegLen /\ delivered \in 0 .. MaxSegLen
  /\ linked \in BOOLEAN /\ announced \in BOOLEAN
  /\ held \in BOOLEAN /\ live \subseteq 0 .. MaxBytes
  /\ before \in 0 .. MaxBytes
  /\ result \in [chain : Seq(Segs), total : Nat, first : Nat, limit : Limits \cup {0}]

(* The chain covers the bytes from p on, in order and without a gap. *)
ContiguousFrom(p, chain) ==
  \A i \in DOMAIN chain : chain[i].at = p + Total(SubSeq(chain, 1, i - 1))

(* Successive calls of service_receive give the application the stream:    *)
(* each one starts with the byte after the last one given and leaves none  *)
(* out, however the reads cut the segments; and all variables have their   *)
(* types.                                                                  *)
ReadsContiguous == TypeOK /\ ContiguousFrom(before, result.chain)

(* Nothing is lost on the way either: what was given, what the shadow      *)
(* keeps and the chains on the ring follow one another in the stream, the  *)
(* last one up to the last byte that arrived.                              *)
Given == before + Total(result.chain)
Kept == IF shadow = << >> THEN 0 ELSE remainder + Total(shadowNext)
End(chain) == chain[1].at + Total(chain)

Covers(queue, from, to) ==
  IF queue = << >>
    THEN from = to
    ELSE /\ queue[1][1].at = from
         /\ \A i \in 1 .. Len(queue) - 1 : queue[i + 1][1].at = End(queue[i])
         /\ End(queue[Len(queue)]) = to

NothingLost == Covers(rx, Given + Kept, arrived)

(* Every buffer is in its pool or in one place: on the ring, in the        *)
(* shadow, or with the application until it releases it.  None is lost,    *)
(* and none is freed while someone still has it, although the last segment *)
(* given and the shadow may be one buffer, which the release leaves out.   *)
OnRing == UNION {Bufs(rx[i]) : i \in DOMAIN rx}
InShadow == Bufs(shadow) \cup Bufs(shadowNext)
WithApp == IF held THEN Bufs(result.chain) ELSE {}

BuffersAccounted ==
  /\ live = OnRing \cup InShadow \cup WithApp
  /\ OnRing \cap (InShadow \cup WithApp) = {}
  /\ InShadow \cap WithApp \subseteq Bufs(shadow)

(* total_len is the exact number of bytes retrieved, at most the number    *)
(* asked for, and first_segment_len is the length of the first segment.    *)
LengthsExact ==
  /\ result.total = Total(result.chain)
  /\ result.limit > 0 => result.total <= result.limit
  /\ result.chain # << >> => result.first = result.chain[1].len
=============================================================================
