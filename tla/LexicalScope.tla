---------------------------- MODULE LexicalScope ----------------------------
(***************************************************************************)
(* What name resolution promises: nested scopes, each with declarations in *)
(* the order they were made, and for every name the value that the         *)
(* innermost, latest declaration of it gives.                              *)
(***************************************************************************)
EXTENDS Naturals, Sequences

CONSTANTS Maps, Names, Values, None

VARIABLES
    frames,     \* outermost scope first: [Maps -> Seq([name, value])]
    bound       \* [Maps -> [Names -> Values \cup {None}]]

EmptyFrame == [m \in Maps |-> <<>>]

Innermost(fs, m, n) ==
    LET hits == UNION {{<<i, j>> : j \in {k \in DOMAIN fs[i][m] : fs[i][m][k].name = n}} :
                          i \in DOMAIN fs}
        last == CHOOSE p \in hits : \A q \in hits :
                    q[1] < p[1] \/ (q[1] = p[1] /\ q[2] <= p[2])
    IN  IF hits = {} THEN None ELSE fs[last[1]][m][last[2]].value

Init ==
    /\ frames = <<EmptyFrame>>
    /\ bound = [m \in Maps |-> [n \in Names |-> None]]

Open ==
    /\ frames' = Append(frames, EmptyFrame)
    /\ UNCHANGED bound

Declare(m, n, v) ==
    /\ frames' = [frames EXCEPT ![Len(frames)][m] = Append(@, [name |-> n, value |-> v])]
    /\ bound' = [bound EXCEPT ![m][n] = v]

Close ==
    /\ Len(frames) > 1
    /\ frames' = SubSeq(frames, 1, Len(frames) - 1)
    /\ bound' = [m \in Maps |-> [n \in Names |-> Innermost(frames', m, n)]]

Next == \/ Open
        \/ \E m \in Maps, n \in Names, v \in Values : Declare(m, n, v)
        \/ Close

Spec == Init /\ [][Next]_<<frames, bound>>
=============================================================================
