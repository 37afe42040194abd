---------------------------- MODULE MCDbnReader ----------------------------
(* DbnReader on small files, and a comment of the code held against it. *)
EXTENDS DbnReader, Samples

(* Files for the runs in which each read may end in several ways. *)
FewFiles ==
    {Prologue(1, 0, b) : b \in {Add \o Other \o SubSeq(Clear, 1, 6),
                               ShortMbo \o Add, Add \o Zero, <<1>>}}
    \cup {Prologue(1, 3, <<7, 7, 7>> \o Clear), Prologue(1, 3, <<7, 7>>)}

(* What the comment on frame_one says: its three checks exclude each       *)
(* other, so their order is immaterial.  The checks that can be evaluated  *)
(* on a buffer of at least one byte are compared: whichever comes first,   *)
(* the status is the same.                                                 *)
StatusesOfChecks(b) ==
    (IF Len(b) < 2 THEN {"NeedMore"} ELSE {})
    \cup (IF b[1] * 4 = 0 THEN {"Corrupt"} ELSE {})
    \cup (IF Len(b) < b[1] * 4 THEN {"NeedMore"} ELSE {})

ChecksInAnyOrder ==
    (pc = "pull" /\ Front # <<>>) =>
        \A s, t \in StatusesOfChecks(Front) : s = t

=============================================================================
