---------------------------- MODULE MCEnrollment ----------------------------
(* Instances of Enrollment for TLC. *)
EXTENDS Enrollment, TLC

CONSTANTS T1, T2, T3, T4, T5

OnlyJoinKey == [auth |-> None, join |-> JoinKey, prev |-> None]
EnrolledHost == [auth |-> T1, join |-> None, prev |-> None]
\* An enrolled host whose operator has configured a join key again.
RejoinableHost == [auth |-> T1, join |-> JoinKey, prev |-> None]

\* The files a host starts with: what install.sh writes and what enrollment
\* leaves behind.
WithCredential == {OnlyJoinKey, EnrolledHost, RejoinableHost}
AnyStart == WithCredential \union {NoConfig}
=============================================================================
