--------------------------- MODULE NetworkDashboard ---------------------------
(***************************************************************************)
(* The network page (NetworkStatusPage.tsx) over the consortium of module   *)
(* ConsortiumNode and the aggregates of module NetworkStatus.               *)
(*                                                                         *)
(* The page asks for the network's status every four seconds and after each *)
(* button.  The server asks the nodes at once, makes an aggregate of what    *)
(* answers within the timeout, and the page shows the aggregate that        *)
(* arrives last, which need not be the one that was asked for last: nothing *)
(* numbers the answers.  The nodes of one answer are read at different      *)
(* moments, and all of it is old when it is shown.                         *)
(*                                                                         *)
(* The buttons propose a block at Alpha, and toggle or sync any node: each   *)
(* node has a card with both.  They have one field between them,            *)
(* actionLoading, which each of them overwrites and resets, and a request   *)
(* that times out resets it while its handler goes on: it keeps nobody from  *)
(* clicking and is left out.  In its place MaxOpen bounds the proposals and  *)
(* syncs under way; 1 is a user who waits for the end of each.  Toggled and  *)
(* Syncing are the nodes whose buttons are pressed.                         *)
(***************************************************************************)
EXTENDS NetworkStatus

CONSTANT MaxPolls    \* bound: requests of the page on their way

ASSUME DashboardAssumption == MaxPolls \in Nat \ {0}

VARIABLES
    answers,   \* request for the status -> the nodes it found ONLINE, and what they said
    page       \* the aggregate that is shown

cluster == <<status, height, rows, txs, rounds, commits, syncs, log, certified>>
dashVars == <<cluster, answers, page>>

------------------------------------------------------------------------------
(* The status *)

NoPage == [status |-> "LOADING"]

Put(f, k, v) == [x \in DOMAIN f \cup {k} |-> IF x = k THEN v ELSE f[x]]


\* The timer, or the end of a button's action.
FetchStatus(r) ==
    /\ r \notin DOMAIN answers
    /\ answers' = Put(answers, r, [n \in {} |-> Offline])
    /\ UNCHANGED <<cluster, page>>

\* One of the fetches of the server finds its node ONLINE.
CheckNodeStatus(r, n) ==
    /\ r \in DOMAIN answers
    /\ status[n] = "ONLINE" /\ n \notin DOMAIN answers[r]
    /\ answers' = [answers EXCEPT ![r] = Put(@, n, NodeInfo(n))]
    /\ UNCHANGED <<cluster, page>>

\* The aggregate arrives.  Nodes not found ONLINE by then, because they are not or
\* because their fetch timed out, count as offline.
ShowStatus(r) ==
    /\ answers' = Without(answers, {r})
    /\ page' = Aggregate([n \in Nodes |->
                            IF n \in DOMAIN answers[r] THEN answers[r][n] ELSE Offline])
    /\ UNCHANGED cluster

\* The answer to the page is lost: it shows what it showed.
LoseStatus(r) ==
    /\ answers' = Without(answers, {r})
    /\ UNCHANGED <<cluster, page>>

AllAnswered(r) == \A n \in Nodes : status[n] = "ONLINE" => n \in DOMAIN answers[r]

Poll(r) ==
    \/ FetchStatus(r)
    \/ \E n \in Nodes : CheckNodeStatus(r, n)
    \/ r \in DOMAIN answers /\ AllAnswered(r) /\ ShowStatus(r)

Loss(r) ==
    \/ r \in DOMAIN answers /\ ~AllAnswered(r) /\ ShowStatus(r)
    \/ r \in DOMAIN answers /\ LoseStatus(r)

------------------------------------------------------------------------------
(* The buttons, each of them by what the page shows *)

Shown == page # NoPage

Waiting == Cardinality(DOMAIN rounds) + Cardinality(DOMAIN syncs)

ProposeBlock ==
    /\ Waiting < MaxOpen
    /\ Shown /\ Cardinality(page.online) >= Quorum
    /\ Propose(Alpha)

\* The page names no status, so the node's own decides.
ToggleNode(n) ==
    ToggleStatus(n, IF status[n] = "ONLINE" THEN "OFFLINE" ELSE "ONLINE")

SyncNode(n) ==
    /\ Waiting < MaxOpen
    /\ Shown /\ n \in page.online
    /\ StartSync(n)

\* What goes on in the nodes; the page asks for syncs with force.
ClusterStep ==
    \/ \E b \in DOMAIN rounds : ReceiveBlock(b) \/ RejectRound(b) \/ Certify(b) \/ SendCommit(b)
    \/ \E b \in certified, p \in Nodes : HandleCommit(b, p)
    \/ \E n \in DOMAIN syncs : FetchBlocks(n) \/ FinishSync(n, TRUE)
    \/ \E n \in Restartable : Restart(n)
    \/ \E n \in Restartable, b \in DOMAIN log : CrashInCommit(n, b)
    \/ \E n \in Restartable \cap DOMAIN syncs :
          \E top \in DOMAIN syncs[n].rows : CrashInSync(n, top)

DashInit == Init /\ page = NoPage /\ answers = [r \in {} |-> {}]

DashNext ==
    \/ \E r \in 1..MaxPolls : Poll(r)
    \/ \E r \in 1..MaxPolls : Loss(r)
    \/ ProposeBlock /\ UNCHANGED <<answers, page>>
    \/ \E n \in Toggled : ToggleNode(n) /\ UNCHANGED <<answers, page>>
    \/ \E n \in Syncing : SyncNode(n) /\ UNCHANGED <<answers, page>>
    \/ ClusterStep /\ UNCHANGED <<answers, page>>

\* The timer of the page comes back, and every fetch and every answer ends; each of these
\* steps changes answers.
DashSpec == DashInit /\ [][DashNext]_dashVars /\ \A r \in 1..MaxPolls : WF_answers(Poll(r))

------------------------------------------------------------------------------
(* Properties *)

BlocksAt(h) == IF h = 0 THEN {GenesisHash} ELSE {b \in certified : log[b].height = h}

\* NetworkStatusPage.tsx: what a page that says READY shows can only be disputed by a
\* second certificate for the same height.  However old the page is, whichever answer
\* overtook another and whenever each node was read, its hash is that of genesis or of
\* a certified block of the height it shows, and so is what every node it shows ONLINE
\* stores at that height by now.  (Two blocks of a height get certified by overlapping
\* rounds, or when Alpha is toggled OFFLINE during its own round, so that it does not
\* store the block its peers do.)
ShownAgreementStays ==
    Shown /\ page.consensus = "READY" =>
        /\ page.hash \in BlocksAt(page.height)
        /\ \A n \in page.online : /\ page.height \in DOMAIN rows[n]
                                  /\ rows[n][page.height].hash \in BlocksAt(page.height)

Disturbed == cluster' # cluster \/ \E r \in DOMAIN answers \ DOMAIN answers' : Loss(r)

===============================================================================
