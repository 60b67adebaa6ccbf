----------------------------- MODULE ClockSync -----------------------------
(***************************************************************************)
(* The clock synchronisation of the MPI tracer (liballprof/sync.c,         *)
(* sync_tree): rank 0 learns the difference of its clock to every other    *)
(* clock.  Ranks below the largest power of two pair up in rounds; in      *)
(* every pair the lower rank (the client) measures the other (the server)  *)
(* by pings and then takes over what the server has measured so far.  Each *)
(* remaining rank measures its partner and reports to rank 0.              *)
(*                                                                         *)
(* Clocks run at the same speed, each with a constant offset.  A ping      *)
(* takes one time to the server and another back, both of Legs.            *)
(* Differences are counted in halves, since half a round trip enters them. *)
(***************************************************************************)
EXTENDS Integers, Sequences, FiniteSets, SequencesExt

CONSTANTS Procs,                \* sizes of the communicator
          Clock,                \* rank -> offset of its clock
          Legs,                 \* size of the communicator -> times a message may take
          NumberSmaller         \* pings in a row that must not be faster

MaxTime == 1000                 \* MAX_DOUBLE: slower than every round trip

ASSUME SyncAssumption ==
    /\ Procs \subseteq Nat \ {0, 1}
    /\ \A n \in Procs : /\ \A r \in 0..(n - 1) : Clock[r] \in Int
                        /\ Legs[n] \subseteq Nat \ {0} /\ Legs[n] # {}
                        /\ \A leg \in Legs[n] : 2 * leg < MaxTime
    /\ NumberSmaller \in Nat \ {0}

VARIABLES p,                    \* the size of the communicator
          sync,                 \* rank -> its local variables in sync_tree
          net,                  \* <<from, to>> -> messages with tag 0 on their way
          late,                 \* rank -> its report to rank 0, with tag 1
          scattered,            \* rank -> its part of the MPI_Scatter, the result of sync_tree
          hop                   \* <<client, server>> -> fastest round trip (ghost)

syncVars == <<p, sync, net, late, scattered, hop>>

Members == 0..(p - 1)

Pow2[k \in Nat] == IF k = 0 THEN 1 ELSE 2 * Pow2[k - 1]
Log2 == CHOOSE k \in 1..p : Pow2[k] <= p /\ Pow2[k + 1] > p
Power == Pow2[Log2]

\* The sessions of a rank in their order.  Before round k a server has
\* measured the "items" ranks above it.
Rounds(r) == Cardinality({k \in 1..Log2 : r % Pow2[k - 1] = 0})
TreeSession(r, k) ==
    LET client == r % Pow2[k] = 0
    IN [client |-> client, items |-> Pow2[k - 1] - 1,
        peer |-> IF client THEN r + Pow2[k - 1] ELSE r - Pow2[k - 1]]
SessionAt(r, k) ==
    CASE r >= Power                   -> [client |-> TRUE, items |-> 0, peer |-> r - Power]
      [] r < Power /\ k <= Rounds(r) -> TreeSession(r, k)
      [] r < Power /\ k > Rounds(r)  -> [client |-> FALSE, items |-> 0, peer |-> r + Power]
Sessions(r) ==
    IF r >= Power THEN 1 ELSE Rounds(r) + IF p - Power > r THEN 1 ELSE 0

Outside(r) == sync[r].step = 0
InSession(r) == sync[r].step \in 1..Sessions(r)
Session(r) == SessionAt(r, sync[r].step)
Through(r) == sync[r].step = Sessions(r) + 1

Idle == [step |-> 0, phase |-> "begin", smallest |-> MaxTime, notsmaller |-> 0, diff |-> 0, diffs |-> <<>>]

NextSession(s) == [s EXCEPT !.step = @ + 1, !.phase = "begin", !.smallest = MaxTime, !.notsmaller = 0]

Message(from, to) == net[<<from, to>>]
Has(from, to, kind) == Message(from, to) # <<>> /\ Head(Message(from, to)).kind = kind

\* What the network looks like after r takes a message and sends one.
Exchanged(r, peer, taken, sent) ==
    [net EXCEPT ![<<peer, r>>] = IF taken THEN Tail(@) ELSE @, ![<<r, peer>>] = @ \o sent]

Msg(kind) == [kind |-> kind, data |-> <<>>]

\* ----------------------------------------------------------------- actions
Enter(r) ==
    /\ Outside(r)
    /\ sync' = [sync EXCEPT ![r] = [Idle EXCEPT !.step = 1, !.diffs = [x \in Members |-> 0]]]
    /\ UNCHANGED <<p, net, late, scattered, hop>>

Ping(r) ==
    /\ InSession(r) /\ Session(r).client /\ sync[r].phase = "begin"
    /\ net' = Exchanged(r, Session(r).peer, FALSE, <<Msg("ping")>>)
    /\ sync' = [sync EXCEPT ![r].phase = "waiting"]
    /\ UNCHANGED <<p, late, scattered, hop>>

(* A pong that took "there" and "back": the fastest one's difference is    *)
(* kept.                                                                   *)
Faster(r, there, back) == there + back < sync[r].smallest

Pong(r, there, back) ==
    LET peer == Session(r).peer
    IN /\ InSession(r) /\ Session(r).client /\ sync[r].phase = "waiting" /\ Has(peer, r, "pong")
       /\ IF Faster(r, there, back)
          THEN sync' = [sync EXCEPT ![r].smallest = there + back, ![r].notsmaller = 0, ![r].phase = "begin",
                                    ![r].diff = 2 * (Clock[r] - Clock[peer]) + back - there]
          ELSE /\ sync[r].notsmaller + 1 < NumberSmaller
               /\ sync' = [sync EXCEPT ![r].notsmaller = @ + 1, ![r].phase = "begin"]
       /\ net' = Exchanged(r, peer, TRUE, <<>>)
       /\ UNCHANGED <<p, late, scattered, hop>>

(* NumberSmaller pongs in a row were not faster: the client tells the      *)
(* server to stop and keeps the difference; a rank outside of the tree     *)
(* reports it to rank 0.                                                   *)
Abort(r, there, back) ==
    LET peer == Session(r).peer
        s == sync[r]
    IN /\ InSession(r) /\ Session(r).client /\ s.phase = "waiting" /\ Has(peer, r, "pong")
       /\ ~Faster(r, there, back) /\ s.notsmaller + 1 = NumberSmaller
       /\ net' = Exchanged(r, peer, TRUE, <<Msg("abort")>>)
       /\ hop' = [hop EXCEPT ![<<r, peer>>] = s.smallest]
       /\ IF r >= Power
          THEN /\ late' = [late EXCEPT ![r] = <<s.diff>>]
               /\ sync' = [sync EXCEPT ![r] = NextSession(s)]
          ELSE /\ late' = late
               /\ LET t == [s EXCEPT !.diffs[peer] = s.diff]
                  IN sync' = [sync EXCEPT ![r] = IF Session(r).items = 0 THEN NextSession(t)
                                                 ELSE [t EXCEPT !.phase = "merging"]]
       /\ UNCHANGED <<p, scattered>>

(* The client adds its difference to the server to what the server has     *)
(* measured.                                                               *)
Merge(r) ==
    LET peer == Session(r).peer
        s == sync[r]
    IN /\ InSession(r) /\ s.phase = "merging" /\ Has(peer, r, "data")
       /\ LET data == Head(Message(peer, r)).data
              merged == [x \in Members |-> IF x \in (peer + 1)..(peer + Session(r).items)
                                           THEN s.diffs[peer] + data[x - peer] ELSE s.diffs[x]]
          IN sync' = [sync EXCEPT ![r] = NextSession([s EXCEPT !.diffs = merged])]
       /\ net' = Exchanged(r, peer, TRUE, <<>>)
       /\ UNCHANGED <<p, late, scattered, hop>>

Serve(r) ==
    LET peer == Session(r).peer
        s == sync[r]
        items == Session(r).items
    IN /\ InSession(r) /\ ~Session(r).client
       /\ \/ /\ Has(peer, r, "ping")
             /\ net' = Exchanged(r, peer, TRUE, <<Msg("pong")>>)
             /\ UNCHANGED sync
          \/ /\ Has(peer, r, "abort")
             /\ net' = Exchanged(r, peer, TRUE,
                         IF items = 0 THEN <<>>
                         ELSE <<[kind |-> "data", data |-> [i \in 1..items |-> s.diffs[r + i]]]>>)
             /\ sync' = [sync EXCEPT ![r] = NextSession(s)]
       /\ UNCHANGED <<p, late, scattered, hop>>

(* The client measured the other way round here.  (Wrong variant: the sign *)
(* of the tree's measurements.)                                            *)
CorrectedUpwards(x) == sync[0].diffs[x - Power] + late[x][1]
Corrected(x) == sync[0].diffs[x - Power] - late[x][1]

(* Rank 0 waits for the reports, completes the differences and scatters    *)
(* them.                                                                   *)
Collect ==
    LET s == sync[0]
        complete == [x \in Members |-> IF x < Power THEN s.diffs[x]
                                       ELSE Corrected(x)]
    IN /\ Through(0)
       /\ \A x \in Power..(p - 1) : late[x] # <<>>
       /\ late' = [x \in Members |-> <<>>]
       /\ scattered' = [x \in Members |-> IF x = 0 THEN <<>> ELSE <<complete[x]>>]
       /\ sync' = [sync EXCEPT ![0] = Idle]
       /\ hop' = [pair \in Members \X Members |-> 0]
       /\ UNCHANGED <<p, net>>

Leave(r) ==
    /\ r # 0 /\ Through(r) /\ scattered[r] # <<>>
    /\ scattered' = [scattered EXCEPT ![r] = <<>>]
    /\ sync' = [sync EXCEPT ![r] = Idle]
    /\ UNCHANGED <<p, net, late, hop>>

SyncInit ==
    /\ p \in Procs
    /\ sync = [r \in Members |-> Idle]
    /\ net = [pair \in Members \X Members |-> <<>>]
    /\ late = [r \in Members |-> <<>>]
    /\ scattered = [r \in Members |-> <<>>]
    /\ hop = [pair \in Members \X Members |-> 0]

(* A step inside sync_tree of rank r that does not return from it.         *)
SyncStep(r) ==
    \/ Ping(r) \/ Merge(r) \/ Serve(r)
    \/ \E there, back \in Legs[p] : Pong(r, there, back) \/ Abort(r, there, back)

Return(r) == IF r = 0 THEN Collect ELSE Leave(r)

\* -------------------------------------------------------------- properties
(* Rank 0 knows the clock of rank x from the clock of Parent(x), by the    *)
(* measurement of the pair Edge(x).                                        *)
Parent(x) == IF x >= Power THEN x - Power
             ELSE x - CHOOSE d \in {Pow2[k] : k \in 0..Log2} : x % (2 * d) = d
Edge(x) == IF x >= Power THEN <<x, Parent(x)>> ELSE <<Parent(x), x>>

(* What the fastest round trips on the way from rank 0 to rank x were      *)
(* longer than two of the shortest messages.                               *)
MinLeg == Min(Legs[p])
Slack[x \in Members] ==
    IF x = 0 THEN 0 ELSE Slack[Parent(x)] + hop[Edge(x)] - 2 * MinLeg

Abs(x) == IF x < 0 THEN -x ELSE x

(* When rank 0 hands out the differences, each is that of rank 0's clock   *)
(* to the rank's own, up to what the fastest round trips on the way allow: *)
(* the right clocks were compared, with the right sign, and every sum is   *)
(* over one chain of measurements.                                         *)
DiffsRight ==
    [][Through(0) /\ sync'[0] = Idle =>
         \A x \in Members \ {0} :
           Abs(scattered'[x][1] - 2 * (Clock[0] - Clock[x])) <= Slack[x]]_syncVars
=============================================================================
