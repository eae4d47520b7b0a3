----------------------------- MODULE MCPreview -----------------------------
(* Preview for TLC: two months of four days (so that weekly and monthly   *)
(* series differ from daily ones), one time span, one user of each kind, *)
(* a room that needs confirmation, an accepted blocking of days 5-6 and a *)
(* pending one of day 2.                                                  *)
EXTENDS Preview

CONSTANTS s1, s2, admin, owner, plain

MCRes == {s1, s2}
MCMonthLengths == <<4, 4>>
MCRepetitions == {<<NEVER, 0>>, <<DAY, 1>>, <<WEEK, 1>>, <<MONTH, 1>>}
MCSpans == {<<0, 1>>}
MCUsers == {admin, owner, plain}
MCAdmins == {admin}
MCOwners == {owner}
MCOverriders == {admin, owner}
MCBlockings == {[start |-> 5, end |-> 6, state |-> "accepted"],
                [start |-> 2, end |-> 2, state |-> "pending"]}
\* create_occurrences only honours accepted blockings
MCBlockedDates == UNION {b.start..b.end : b \in {c \in MCBlockings : c.state = "accepted"}}
=============================================================================
