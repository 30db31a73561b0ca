------------------------ MODULE MCIndicatorManager ------------------------
(* Small instances of IndicatorManager for TLC. *)
EXTENDS IndicatorManager

CONSTANTS i1, i2, p1, x, y

Record(indicator, itype, provider, tag, last_at, count, fault) ==
    [indicator |-> indicator, itype |-> itype, provider |-> provider,
     tag |-> tag, last_at |-> last_at, count |-> count, fault |-> fault]

\* An indicator seen twice, a third time with another tag, a hash, a mail
\* address, a record whose values do not parse and one that cannot be written;
\* of the counts that come with them some are more than one and some missing.
Seen1 == Record(i1, "typed", p1, x, 1, 3, "none")
Seen2 == Record(i1, "typed", p1, x, 2, 1, "none")
Other == Record(i1, "typed", p1, y, 3, 0, "none")
Digest == Record(i2, "hash", p1, x, 1, 2, "none")
Garbled == Record(i1, "typed", p1, x, 4, 1, "raise")
Unwritable == Record(i2, "typed", p1, y, 2, 1, "flush")
Mail == Record(i2, "plain", p1, x, 3, 0, "none")

UpTo(n, records) == UNION {[1..m -> records] : m \in 1..n}

Mixed == UpTo(3, {Seen1, Seen2, Digest, Unwritable})
         \cup UpTo(2, {Seen1, Other, Mail, Garbled})
=============================================================================
