--------------------------- MODULE TaskServiceProofs ---------------------------
(***************************************************************************)
(* Proofs about TaskService, for every set of calls, projects, workspaces  *)
(* and requests.                                                           *)
(***************************************************************************)
EXTENDS TaskService, FiniteSetTheorems, TLAPS

\* The tree a call works in has been chosen, or it has ended before that.
Placed(c) == call[c].pc \notin {"ready", "prepare", "quota", "add"}

\* The tree is the worktree of the call's workspace, ...
InWorktree(c) ==
    /\ Asked(c).project \notin Plain
    /\ call[c].tree = WorktreePath(c)
    /\ call[c].id = WorkspaceId(c)

\* ... or a project.
InCheckout(c) ==
    /\ call[c].tree = Checkout(Asked(c).project)
    /\ call[c].id = None

\* What is known of the request and the tree of a call.
PlaceInv(c) ==
    /\ call[c].pc # "ready" => call[c].request \in Requests
    /\ call[c].pc \notin {"ready", "ended"} => Valid(Asked(c)) /\ Resolves(Asked(c))
    /\ call[c].pc \in {"quota", "add"} => Asked(c).project \notin Plain
    /\ ~Placed(c) => /\ call[c].tree = None
                     /\ call[c].id = None
                     /\ call[c].session = None
    /\ Placed(c) /\ call[c].pc # "ended" => InWorktree(c) \/ InCheckout(c)
    /\ call[c].id # None => InWorktree(c)
    /\ Placed(c) /\ call[c].pc # "ended" /\ ~call[c].error /\ ~InWorktree(c)
         => Asked(c).project \in Plain
    /\ call[c].pc = "run" => ~call[c].error

CheckoutInv == TypeOK /\ (\A c \in Calls : PlaceInv(c)) /\ MainCheckoutUntouched

\* Nothing takes a path out of a tree again, and only runners write.
Undisturbed == Behaviours \cap {"commit", "verify_writes", "remove"} = {}

\* What a call has written is in its tree, then in its status, then in its allow-list.
WrittenInv(c) ==
    /\ call[c].pc \in {"ready", "prepare", "quota", "add", "judge"} => wrote[c] = {}
    /\ call[c].pc \in {"run", "after"} => wrote[c] \subseteq tree[call[c].tree]
    /\ call[c].pc = "verify" => wrote[c] \subseteq call[c].status
    /\ call[c].pc \in {"save", "finish"} /\ ~call[c].error /\ Asked(c).allow # {}
         => wrote[c] \subseteq Asked(c).allow
    /\ taskJson[c] = "DONE" =>
        /\ call[c].pc = "ended"
        /\ Asked(c).allow # {} => wrote[c] \subseteq Asked(c).allow

AllowInv == CheckoutInv /\ \A c \in Calls : WrittenInv(c)

\* No two projects with a name of their own use one workspace name.
OneNamePerWorkspace ==
    \A q, r \in Requests :
        /\ q.project \notin Plain /\ r.project \notin Plain
        /\ q.workspace # None /\ q.workspace = r.workspace
        => NameOf[q.project] = NameOf[r.project]

\* The call c works where the call s works that started the session s.
WorksWith(c, s) ==
    /\ Placed(s)
    /\ call[c].tree = call[s].tree
    /\ call[c].id = call[s].id

\* A session is held and saved only for the workspace of the call that started it,
\* and has worked in no other tree.
SessionInv ==
    /\ \A c \in Calls : call[c].session # None => WorksWith(c, call[c].session)
    /\ \A id \in Ids : sessions[id] # None => call[sessions[id]].id = id
    /\ \A s \in Session : context[s] \subseteq {call[s].tree}
    /\ \A s \in Session : ~Placed(s) => context[s] = {}

ContextInv == CheckoutInv /\ SessionInv

-----------------------------------------------------------------------------
(* The operators. *)

\* A project is no worktree, and no other project.
LEMMA CheckoutFacts ==
    ASSUME NEW p \in Projects
    PROVE  /\ Checkout(p) \in Checkouts /\ Checkout(p) \in Trees
           /\ Checkout(p) \notin Worktrees
           /\ \A q \in Projects : Checkout(q) = Checkout(p) => q = p
    BY DEF Checkout, Checkouts, Trees, Worktrees

\* What a request is.
LEMMA RequestFacts ==
    ASSUME NEW q \in Requests
    PROVE  /\ q.project \in Projects
           /\ q.workspace \in WorkspaceIds \cup {None}
           /\ q.mode \in {"read", "write"}
           /\ q.approved \in BOOLEAN /\ q.blocked \in BOOLEAN /\ q.verify \in BOOLEAN
           /\ q.allow \subseteq Paths
           /\ q \in Request
    BY RequestAssumption DEF Request

\* The worktree of a call that asks for something.
LEMMA WorktreeFacts ==
    ASSUME NEW c \in Calls, Asked(c) \in Requests
    PROVE  /\ WorkspaceId(c) \in Ids
           /\ WorkspaceId(c) # None
           /\ WorktreePath(c) \in Worktrees /\ WorktreePath(c) \in Trees
<1>1. /\ Asked(c).project \in Projects
      /\ Asked(c).workspace \in WorkspaceIds \cup {None}
    BY RequestFacts
<1>2. WorkspaceId(c) \in Ids /\ WorkspaceId(c) # None
    BY <1>1, DistinctAssumption DEF WorkspaceId, Ids
<1>3. NameOf[Asked(c).project] \in Names
    BY <1>1, NamesAssumption
<1>4. QED
    BY <1>2, <1>3 DEF WorktreePath, Worktrees, Trees

\* What a step of c leaves of another call, but that its tree was touched.
Stays(b) ==
    /\ call'[b].pc = call[b].pc
    /\ call'[b].request = call[b].request
    /\ call'[b].tree = call[b].tree
    /\ call'[b].id = call[b].id
    /\ call'[b].error = call[b].error
    /\ call'[b].session = call[b].session
    /\ call'[b].status = call[b].status

Moves(c) ==
    /\ call' \in [Calls -> Local]
    /\ \A b \in Calls \ {c} : Stays(b)

\* What a call is made of.
LEMMA LocalFacts ==
    ASSUME TypeOK, NEW c \in Calls
    PROVE  /\ call \in [Calls -> Local]
           /\ call[c] \in Local
           /\ call[c].error \in BOOLEAN
           /\ call[c].touched \in BOOLEAN
           /\ call[c].session \in Session \cup {None}
           /\ call[c].tree \in Trees \cup {None}
           /\ call[c].id \in Ids \cup {None}
           /\ call[c].status \in SUBSET (Paths \cup {None})
    BY DEF TypeOK, Local

\* A new local state of one call.
LEMMA SetEffect ==
    ASSUME TypeOK, NEW c \in Calls, NEW l \in Local, call' = [call EXCEPT ![c] = l]
    PROVE  Moves(c) /\ call'[c] = l
    BY DEF TypeOK, Moves, Stays

\* The call goes on.
LEMMA GotoEffect ==
    ASSUME TypeOK, NEW c \in Calls,
           NEW pc \in {"ready", "prepare", "quota", "add", "judge", "run", "after",
                       "verify", "save", "finish", "ended"},
           Goto(c, pc)
    PROVE  /\ Moves(c)
           /\ call'[c].pc = pc
           /\ call'[c].request = call[c].request /\ call'[c].tree = call[c].tree
           /\ call'[c].id = call[c].id /\ call'[c].error = call[c].error
           /\ call'[c].session = call[c].session /\ call'[c].status = call[c].status
<1> DEFINE l == [call[c] EXCEPT !.pc = pc]
<1>1. /\ l \in Local
      /\ l.pc = pc
      /\ l.request = call[c].request /\ l.tree = call[c].tree
      /\ l.id = call[c].id /\ l.error = call[c].error
      /\ l.session = call[c].session /\ l.status = call[c].status
    BY LocalFacts DEF Local
<1>2. call' = [call EXCEPT ![c] = l]
    BY DEF Goto
<1> HIDE DEF l
<1>3. QED
    BY <1>1, <1>2, SetEffect

\* To touch a tree changes nothing of a call but that it was touched.
LEMMA TouchedEffect ==
    ASSUME TypeOK, NEW d
    PROVE  /\ Touched(d) \in [Calls -> Local]
           /\ \A b \in Calls :
                /\ Touched(d)[b].pc = call[b].pc
                /\ Touched(d)[b].request = call[b].request
                /\ Touched(d)[b].tree = call[b].tree
                /\ Touched(d)[b].id = call[b].id
                /\ Touched(d)[b].error = call[b].error
                /\ Touched(d)[b].session = call[b].session
                /\ Touched(d)[b].status = call[b].status
<1>1. \A b \in Calls :
        LET l == [call[b] EXCEPT !.touched = TRUE]
        IN  /\ l \in Local
            /\ l.pc = call[b].pc /\ l.request = call[b].request
            /\ l.tree = call[b].tree /\ l.id = call[b].id /\ l.error = call[b].error
            /\ l.session = call[b].session /\ l.status = call[b].status
    BY LocalFacts DEF Local
<1>2. call \in [Calls -> Local]
    BY DEF TypeOK
<1>3. QED
    BY <1>1, <1>2 DEF Touched

-----------------------------------------------------------------------------
(* What the steps do to the call that takes them. *)

\* A call begins, or is refused for what it asks.
LEMMA BeginEffect ==
    ASSUME TypeOK, NEW c \in Calls, NEW request \in Requests, Begin(c, request)
    PROVE  /\ Moves(c)
           /\ call[c].pc = "ready"
           /\ call'[c].request = request
           /\ call'[c].pc \in {"prepare", "ended"}
           /\ call'[c].pc = "prepare" => Valid(request) /\ Resolves(request)
           /\ call'[c].tree = call[c].tree /\ call'[c].id = call[c].id
           /\ call'[c].error = call[c].error /\ call'[c].session = call[c].session
<1> DEFINE pc == IF Valid(request) /\ Resolves(request) THEN "prepare" ELSE "ended"
           l == [call[c] EXCEPT !.request = request, !.pc = pc]
<1>1. call' = [call EXCEPT ![c] = l] /\ call[c].pc = "ready"
    BY DEF Begin, At
<1>2. request \in Request /\ pc \in {"prepare", "ended"}
    BY RequestAssumption
<1>3. pc = "prepare" => Valid(request) /\ Resolves(request)
    OBVIOUS
<1> HIDE DEF pc
<1>4. /\ l \in Local
      /\ l.request = request /\ l.pc = pc
      /\ l.tree = call[c].tree /\ l.id = call[c].id
      /\ l.error = call[c].error /\ l.session = call[c].session
    BY <1>2, LocalFacts DEF Local
<1> HIDE DEF l
<1>5. QED
    BY <1>1, <1>2, <1>3, <1>4, SetEffect

\* A tree is chosen without the help of Git.
LEMMA ExecuteEffect ==
    ASSUME TypeOK, NEW c \in Calls, NEW d \in Trees, NEW id \in Ids \cup {None},
           Execute(c, d, id)
    PROVE  /\ Moves(c)
           /\ call'[c].pc = "judge" /\ call'[c].tree = d /\ call'[c].id = id
           /\ call'[c].request = call[c].request
           /\ call'[c].error = call[c].error /\ call'[c].session = call[c].session
<1> DEFINE l == [call[c] EXCEPT !.tree = d, !.id = id, !.pc = "judge"]
<1>1. call' = [call EXCEPT ![c] = l]
    BY DEF Execute
<1>2. /\ l \in Local
      /\ l.pc = "judge" /\ l.tree = d /\ l.id = id
      /\ l.request = call[c].request
      /\ l.error = call[c].error /\ l.session = call[c].session
    BY LocalFacts DEF Local
<1> HIDE DEF l
<1>3. QED
    BY <1>1, <1>2, SetEffect

\* There is no worktree: the task would work in the project.
LEMMA WorktreeFailsEffect ==
    ASSUME TypeOK, NEW c \in Calls, Asked(c) \in Requests, WorktreeFails(c)
    PROVE  /\ Moves(c)
           /\ call'[c].pc = "judge" /\ call'[c].tree = Checkout(Asked(c).project)
           /\ call'[c].id = None /\ call'[c].error
           /\ call'[c].request = call[c].request /\ call'[c].session = call[c].session
<1> DEFINE d == Checkout(Asked(c).project)
           l == [call[c] EXCEPT !.tree = d, !.id = None, !.error = TRUE, !.pc = "judge"]
<1>1. call' = [call EXCEPT ![c] = l]
    BY DEF WorktreeFails
<1>2. d \in Trees
    BY RequestFacts, CheckoutFacts
<1> HIDE DEF d
<1>3. /\ l \in Local
      /\ l.pc = "judge" /\ l.tree = d /\ l.id = None /\ l.error
      /\ l.request = call[c].request /\ l.session = call[c].session
    BY <1>2, LocalFacts DEF Local
<1> HIDE DEF l
<1>4. QED
    BY <1>1, <1>3, SetEffect DEF d

\* The worktree is made.
LEMMA AddEffect ==
    ASSUME TypeOK, NEW c \in Calls, Asked(c) \in Requests,
           call' = [Touched(WorktreePath(c)) EXCEPT ![c] = [@ EXCEPT
                        !.tree = WorktreePath(c), !.id = WorkspaceId(c), !.pc = "judge"]]
    PROVE  /\ Moves(c)
           /\ call'[c].pc = "judge"
           /\ call'[c].tree = WorktreePath(c) /\ call'[c].id = WorkspaceId(c)
           /\ call'[c].request = call[c].request
           /\ call'[c].error = call[c].error /\ call'[c].session = call[c].session
<1> DEFINE d == WorktreePath(c)
           id == WorkspaceId(c)
           m == Touched(d)
           l == [m[c] EXCEPT !.tree = d, !.id = id, !.pc = "judge"]
<1>1. call' = [m EXCEPT ![c] = l]
    OBVIOUS
<1>2. d \in Trees /\ id \in Ids
    BY WorktreeFacts
<1> HIDE DEF d, id
<1>3. /\ m \in [Calls -> Local]
      /\ \A b \in Calls :
           /\ m[b].pc = call[b].pc /\ m[b].request = call[b].request
           /\ m[b].tree = call[b].tree /\ m[b].id = call[b].id
           /\ m[b].error = call[b].error /\ m[b].session = call[b].session
           /\ m[b].status = call[b].status
    BY TouchedEffect
<1> HIDE DEF m
<1>4. /\ l \in Local
      /\ l.pc = "judge" /\ l.tree = d /\ l.id = id
      /\ l.request = call[c].request
      /\ l.error = call[c].error /\ l.session = call[c].session
  <2>1. m[c] \in Local
    BY <1>3
  <2>2. /\ l \in Local
        /\ l.pc = "judge" /\ l.tree = d /\ l.id = id
        /\ l.request = m[c].request
        /\ l.error = m[c].error /\ l.session = m[c].session
    BY <1>2, <2>1 DEF Local
  <2>3. QED
    BY <1>3, <2>2
<1> HIDE DEF l
<1>5. Moves(c) /\ call'[c] = l
    BY <1>1, <1>3, <1>4 DEF Moves, Stays
<1>6. QED
    BY <1>4, <1>5 DEF d, id

\* The saved session is loaded, and the runner is next unless there was an error.
LEMMA LoadEffect ==
    ASSUME TypeOK, NEW c \in Calls, Load(c)
    PROVE  /\ Moves(c)
           /\ call'[c].pc = IF call[c].error THEN "after" ELSE "run"
           /\ call'[c].session = Saved(call[c].id)
           /\ call'[c].request = call[c].request /\ call'[c].tree = call[c].tree
           /\ call'[c].id = call[c].id /\ call'[c].error = call[c].error
<1> DEFINE pc == IF call[c].error THEN "after" ELSE "run"
           s == Saved(call[c].id)
           l == [call[c] EXCEPT !.session = s, !.touched = FALSE, !.pc = pc]
<1>1. call' = [call EXCEPT ![c] = l]
    BY DEF Load
<1>2. s \in Session \cup {None} /\ pc \in {"after", "run"}
    BY LocalFacts DEF Saved, SessionPath, TypeOK
<1> HIDE DEF s, pc
<1>3. /\ l \in Local
      /\ l.pc = pc /\ l.session = s
      /\ l.request = call[c].request /\ l.tree = call[c].tree
      /\ l.id = call[c].id /\ l.error = call[c].error
    BY <1>2, LocalFacts DEF Local
<1> HIDE DEF l
<1>4. QED
    BY <1>1, <1>3, SetEffect DEF s, pc

\* The runner ends, with a session or without, or raises.
LEMMA RunnerEndsEffect ==
    ASSUME TypeOK, NEW c \in Calls, RunnerEnds(c)
    PROVE  /\ Moves(c)
           /\ call'[c].pc = "after"
           /\ call'[c].request = call[c].request /\ call'[c].tree = call[c].tree
           /\ call'[c].id = call[c].id
           /\ call[c].error => call'[c].error
           /\ call'[c].session \in {call[c].session, c}
           /\ \/ context' = context
              \/ /\ call'[c].session # None
                 /\ context' = [context EXCEPT ![call'[c].session] = @ \cup {call[c].tree}]
<1>1. ASSUME NEW zero \in BOOLEAN, NEW s \in {call[c].session, c},
             call' = [call EXCEPT ![c] = [@ EXCEPT
                            !.zero = zero, !.session = s, !.pc = "after"]],
             context' = IF s = None THEN context
                        ELSE [context EXCEPT ![s] = @ \cup {call[c].tree}]
      PROVE  /\ Moves(c)
             /\ call'[c].pc = "after"
             /\ call'[c].request = call[c].request /\ call'[c].tree = call[c].tree
             /\ call'[c].id = call[c].id
             /\ call[c].error => call'[c].error
             /\ call'[c].session \in {call[c].session, c}
             /\ \/ context' = context
                \/ /\ call'[c].session # None
                   /\ context' = [context EXCEPT ![call'[c].session] = @ \cup {call[c].tree}]
  <2> DEFINE l == [call[c] EXCEPT !.zero = zero, !.session = s, !.pc = "after"]
  <2>1. s \in Session \cup {None}
    BY LocalFacts DEF Session
  <2>2. /\ l \in Local
        /\ l.pc = "after" /\ l.session = s
        /\ l.request = call[c].request /\ l.tree = call[c].tree
        /\ l.id = call[c].id /\ l.error = call[c].error
    <3>1. l \in Local
      BY <2>1, <1>1, LocalFacts DEF Local
    <3>2. l.pc = "after" /\ l.session = s
      BY LocalFacts DEF Local
    <3>3. l.request = call[c].request /\ l.tree = call[c].tree /\ l.id = call[c].id
      BY LocalFacts DEF Local
    <3>4. l.error = call[c].error
      BY LocalFacts DEF Local
    <3>5. QED
      BY <3>1, <3>2, <3>3, <3>4
  <2>3. call' = [call EXCEPT ![c] = l]
    BY <1>1
  <2> HIDE DEF l
  <2>4. Moves(c) /\ call'[c] = l
    BY <2>2, <2>3, SetEffect
  <2>5. QED
    BY <1>1, <2>2, <2>4
<1>2. CASE /\ call' = [call EXCEPT ![c] = [@ EXCEPT !.error = TRUE, !.pc = "after"]]
           /\ UNCHANGED context
  <2> DEFINE l == [call[c] EXCEPT !.error = TRUE, !.pc = "after"]
  <2>1. /\ l \in Local
        /\ l.pc = "after" /\ l.session = call[c].session
        /\ l.request = call[c].request /\ l.tree = call[c].tree
        /\ l.id = call[c].id /\ l.error
    BY LocalFacts DEF Local
  <2>2. call' = [call EXCEPT ![c] = l]
    BY <1>2
  <2> HIDE DEF l
  <2>3. QED
    BY <1>2, <2>1, <2>2, SetEffect
<1>3. QED
    BY <1>1, <1>2 DEF RunnerEnds

\* The status after the run is what the tree shows then.
LEMMA AfterEffect ==
    ASSUME TypeOK, NEW c \in Calls, call[c].tree \in Trees, After(c)
    PROVE  /\ Moves(c)
           /\ call'[c].pc = "verify" /\ call'[c].status = tree[call[c].tree]
           /\ call'[c].request = call[c].request /\ call'[c].tree = call[c].tree
           /\ call'[c].id = call[c].id /\ call'[c].session = call[c].session
           /\ call[c].error => call'[c].error
<1> DEFINE error == FailedAfter(c)
           status == tree[call[c].tree]
           l == [call[c] EXCEPT !.status = status, !.error = error, !.pc = "verify"]
<1>1. call' = [call EXCEPT ![c] = l]
    BY DEF After, GitStatus
<1>2. error \in BOOLEAN /\ (call[c].error => error)
    BY DEF FailedAfter
<1>3. status \in SUBSET (Paths \cup {None})
  <2>1. \A x \in (SUBSET Paths) \cup {Gone} : x \in SUBSET (Paths \cup {None})
    BY DEF Gone
  <2>2. tree[call[c].tree] \in (SUBSET Paths) \cup {Gone}
    BY DEF TypeOK
  <2>3. QED
    BY <2>1, <2>2
<1> HIDE DEF error, status
<1>4. /\ l \in Local
      /\ l.pc = "verify" /\ l.status = status /\ l.error = error
      /\ l.request = call[c].request /\ l.tree = call[c].tree
      /\ l.id = call[c].id /\ l.session = call[c].session
    BY <1>2, <1>3, LocalFacts DEF Local
<1> HIDE DEF l
<1>5. QED
    BY <1>1, <1>2, <1>4, SetEffect DEF status

\* A check that fails is an error.
LEMMA CheckEffect ==
    ASSUME TypeOK, NEW c \in Calls, Check(c)
    PROVE  /\ Moves(c)
           /\ call'[c].pc = "save" /\ call'[c].status = call[c].status
           /\ call'[c].request = call[c].request /\ call'[c].tree = call[c].tree
           /\ call'[c].id = call[c].id /\ call'[c].session = call[c].session
           /\ call[c].error \/ Unexpected(c) => call'[c].error
<1>1. PICK failed \in {FALSE, Verifying(c)} :
        call' = [call EXCEPT ![c] = [@ EXCEPT
                    !.error = FailedChecks(c, failed), !.pc = "save"]]
    BY DEF Check
<1> DEFINE error == FailedChecks(c, failed)
           l == [call[c] EXCEPT !.error = error, !.pc = "save"]
<1>2. call' = [call EXCEPT ![c] = l]
    BY <1>1
<1>3. error \in BOOLEAN /\ (call[c].error \/ Unexpected(c) => error)
    BY DEF FailedChecks
<1> HIDE DEF error
<1>4. /\ l \in Local
      /\ l.pc = "save" /\ l.error = error /\ l.status = call[c].status
      /\ l.request = call[c].request /\ l.tree = call[c].tree
      /\ l.id = call[c].id /\ l.session = call[c].session
    BY <1>3, LocalFacts DEF Local
<1> HIDE DEF l
<1>5. QED
    BY <1>2, <1>3, <1>4, SetEffect

-----------------------------------------------------------------------------
(* Types, the place where a call works, and the project's own checkout. *)

\* Nothing is known to change of a call that somebody else's step leaves alone.
LEMMA PlaceStays ==
    ASSUME NEW b \in Calls, PlaceInv(b), Stays(b)
    PROVE  PlaceInv(b)'
    BY DEF PlaceInv, Stays, Placed, InWorktree, InCheckout, Asked, WorktreePath,
           WorkspaceId

\* A call that has been placed and has not ended works in some tree.
LEMMA PlacedTree ==
    ASSUME CheckoutInv, NEW c \in Calls, Placed(c), call[c].pc # "ended"
    PROVE  /\ Asked(c) \in Requests
           /\ call[c].tree \in Trees
<1>1. Asked(c) \in Requests
    BY DEF CheckoutInv, PlaceInv, Placed, Asked
<1>2. InWorktree(c) \/ InCheckout(c)
    BY DEF CheckoutInv, PlaceInv
<1>3. QED
    BY <1>1, <1>2, RequestFacts, WorktreeFacts, CheckoutFacts
        DEF InWorktree, InCheckout

\* A step of c that keeps its own place, the types and the projects.
LEMMA MoveKeeps ==
    ASSUME CheckoutInv, NEW c \in Calls, Moves(c), PlaceInv(c)',
           tree' \in [Trees -> (SUBSET Paths) \cup {Gone}],
           sessions' \in [Ids -> Session \cup {None}],
           wrote' \in [Calls -> SUBSET Paths],
           context' \in [Session -> SUBSET Trees],
           taskJson' \in [Calls -> Outcome \cup {None}],
           MainCheckoutUntouched'
    PROVE  CheckoutInv'
<1>1. TypeOK'
    BY DEF TypeOK, Moves
<1>2. ASSUME NEW b \in Calls
      PROVE  PlaceInv(b)'
  <2>1. CASE b = c
    BY <2>1
  <2>2. CASE b # c
    BY <2>2, PlaceStays DEF Moves, CheckoutInv
  <2>3. QED
    BY <2>1, <2>2
<1>3. QED
    BY <1>1, <1>2 DEF CheckoutInv

\* A step of c that changes nothing else.
LEMMA LocalKeeps ==
    ASSUME CheckoutInv, NEW c \in Calls, Moves(c), PlaceInv(c)', Locally
    PROVE  CheckoutInv'
    BY MoveKeeps DEF Locally, CheckoutInv, TypeOK, MainCheckoutUntouched

\* A step that records the outcome of c.
LEMMA RecordKeeps ==
    ASSUME CheckoutInv, NEW c \in Calls, Moves(c), PlaceInv(c)',
           NEW outcome \in Outcome, Record(c, outcome),
           UNCHANGED <<tree, sessions, wrote, context>>
    PROVE  CheckoutInv'
<1>1. taskJson' \in [Calls -> Outcome \cup {None}]
    BY DEF Record, CheckoutInv, TypeOK
<1>2. QED
    BY <1>1, MoveKeeps DEF CheckoutInv, TypeOK, MainCheckoutUntouched

\* A step that changes no call but that its tree was touched.
LEMMA TouchKeeps ==
    ASSUME CheckoutInv, NEW d \in Trees, NEW paths \in (SUBSET Paths) \cup {Gone},
           Touch(d, paths),
           \A p \in Projects : d = Checkout(p) => paths = {} \/ p \in Plain \ NoGit,
           UNCHANGED <<sessions, context, taskJson>>,
           wrote' \in [Calls -> SUBSET Paths]
    PROVE  CheckoutInv'
<1>1. call' \in [Calls -> Local] /\ \A b \in Calls : Stays(b)
    BY TouchedEffect DEF Touch, Stays, CheckoutInv
<1>2. tree' \in [Trees -> (SUBSET Paths) \cup {Gone}]
    BY DEF Touch, CheckoutInv, TypeOK
<1>3. TypeOK'
    BY <1>1, <1>2 DEF CheckoutInv, TypeOK
<1>4. \A b \in Calls : PlaceInv(b)'
    BY <1>1, PlaceStays DEF CheckoutInv
<1>5. ASSUME NEW p \in Projects, tree'[Checkout(p)] # {}
      PROVE  p \in Plain \ NoGit
  <2>1. CASE d = Checkout(p)
    BY <1>5, <2>1, CheckoutFacts DEF Touch, CheckoutInv, TypeOK
  <2>2. CASE d # Checkout(p)
    <3>1. tree'[Checkout(p)] = tree[Checkout(p)]
      BY <2>2, CheckoutFacts DEF Touch, CheckoutInv, TypeOK
    <3>2. QED
      BY <1>5, <3>1 DEF CheckoutInv, MainCheckoutUntouched
  <2>3. QED
    BY <2>1, <2>2
<1>6. QED
    BY <1>3, <1>4, <1>5 DEF CheckoutInv, MainCheckoutUntouched

\* Begin knows its request, and has no tree yet.
LEMMA BeginKeeps ==
    ASSUME CheckoutInv, NEW c \in Calls, NEW request \in Requests, Begin(c, request)
    PROVE  CheckoutInv'
<1>1. /\ Moves(c)
      /\ call[c].pc = "ready"
      /\ call'[c].request = request
      /\ call'[c].pc \in {"prepare", "ended"}
      /\ call'[c].pc = "prepare" => Valid(request) /\ Resolves(request)
      /\ call'[c].tree = call[c].tree /\ call'[c].id = call[c].id
      /\ call'[c].session = call[c].session
    BY BeginEffect DEF CheckoutInv
<1>2. call[c].tree = None /\ call[c].id = None /\ call[c].session = None
    BY <1>1 DEF CheckoutInv, PlaceInv, Placed
<1>3. PlaceInv(c)'
    BY <1>1, <1>2 DEF PlaceInv, Placed, Asked
<1>4. QED
    BY <1>1, <1>3, LocalKeeps DEF Begin

\* The place of a call whose worktree cannot be had: the project, with an error.
LEMMA FailedPlace ==
    ASSUME CheckoutInv, NEW c \in Calls, call[c].pc \in {"prepare", "quota", "add"},
           WorktreeFails(c)
    PROVE  Moves(c) /\ PlaceInv(c)'
<1>1. /\ Asked(c) \in Requests
      /\ Valid(Asked(c)) /\ Resolves(Asked(c))
    BY DEF CheckoutInv, PlaceInv, Asked
<1>2. /\ Moves(c)
      /\ call'[c].pc = "judge" /\ call'[c].tree = Checkout(Asked(c).project)
      /\ call'[c].id = None /\ call'[c].error
      /\ call'[c].request = call[c].request
    BY <1>1, WorktreeFailsEffect DEF CheckoutInv
<1>3. PlaceInv(c)'
    BY <1>1, <1>2 DEF PlaceInv, Placed, InCheckout, Asked
<1>4. QED
    BY <1>2, <1>3

\* The place a call is given: its worktree, or the project if it has no commit.
LEMMA GivenPlace ==
    ASSUME CheckoutInv, NEW c \in Calls, call[c].pc \in {"prepare", "quota", "add"},
           Moves(c), call'[c].pc = "judge", call'[c].request = call[c].request,
           \/ /\ call'[c].tree = Checkout(Asked(c).project) /\ call'[c].id = None
              /\ Asked(c).project \in Plain
           \/ /\ call'[c].tree = WorktreePath(c) /\ call'[c].id = WorkspaceId(c)
              /\ Asked(c).project \notin Plain
    PROVE  PlaceInv(c)'
<1>1. /\ Asked(c) \in Requests
      /\ Valid(Asked(c)) /\ Resolves(Asked(c))
    BY DEF CheckoutInv, PlaceInv, Asked
<1>2. CASE /\ call'[c].tree = Checkout(Asked(c).project) /\ call'[c].id = None
           /\ Asked(c).project \in Plain
    BY <1>1, <1>2 DEF PlaceInv, Placed, InCheckout, Asked
<1>3. CASE /\ call'[c].tree = WorktreePath(c) /\ call'[c].id = WorkspaceId(c)
           /\ Asked(c).project \notin Plain
  <2>1. InWorktree(c)'
    BY <1>3 DEF InWorktree, Asked, WorktreePath, WorkspaceId
  <2>2. QED
    BY <1>1, <2>1 DEF PlaceInv, Placed, Asked
<1>4. QED
    BY <1>2, <1>3

\* Prepare gives a call its worktree, or the project if it has no commit.
LEMMA PrepareKeeps ==
    ASSUME CheckoutInv, NEW c \in Calls, Prepare(c)
    PROVE  CheckoutInv'
<1>1. /\ call[c].pc = "prepare" /\ TypeOK /\ Locally
      /\ Asked(c) \in Requests
      /\ Valid(Asked(c)) /\ Resolves(Asked(c))
    BY DEF Prepare, At, CheckoutInv, PlaceInv, Asked
<1>2. CASE /\ Asked(c).project \in Plain
           /\ Execute(c, Checkout(Asked(c).project), None)
  <2>1. /\ Moves(c)
        /\ call'[c].pc = "judge" /\ call'[c].tree = Checkout(Asked(c).project)
        /\ call'[c].id = None /\ call'[c].request = call[c].request
    BY <1>1, <1>2, RequestFacts, CheckoutFacts, ExecuteEffect
  <2>2. PlaceInv(c)'
    BY <1>1, <1>2, <2>1, GivenPlace
  <2>3. QED
    BY <1>1, <2>1, <2>2, LocalKeeps
<1>3. CASE /\ Asked(c).project \notin Plain
           /\ Execute(c, WorktreePath(c), WorkspaceId(c))
  <2>1. /\ Moves(c)
        /\ call'[c].pc = "judge" /\ call'[c].tree = WorktreePath(c)
        /\ call'[c].id = WorkspaceId(c) /\ call'[c].request = call[c].request
    BY <1>1, <1>3, WorktreeFacts, ExecuteEffect
  <2>2. PlaceInv(c)'
    BY <1>1, <1>3, <2>1, GivenPlace
  <2>3. QED
    BY <1>1, <2>1, <2>2, LocalKeeps
<1>4. CASE Asked(c).project \notin Plain /\ Goto(c, "quota")
  <2>1. /\ Moves(c) /\ call'[c].pc = "quota" /\ call'[c].request = call[c].request
        /\ call'[c].tree = call[c].tree /\ call'[c].id = call[c].id
        /\ call'[c].session = call[c].session
    BY <1>1, <1>4, GotoEffect
  <2>2. call[c].tree = None /\ call[c].id = None /\ call[c].session = None
    BY <1>1 DEF CheckoutInv, PlaceInv, Placed
  <2>3. PlaceInv(c)'
    BY <1>1, <1>4, <2>1, <2>2 DEF PlaceInv, Placed, Asked
  <2>4. QED
    BY <1>1, <2>1, <2>3, LocalKeeps
<1>5. QED
    BY <1>2, <1>3, <1>4 DEF Prepare

\* CheckQuota goes on, or leaves the call with an error.
LEMMA CheckQuotaKeeps ==
    ASSUME CheckoutInv, NEW c \in Calls, CheckQuota(c)
    PROVE  CheckoutInv'
<1>1. /\ call[c].pc = "quota" /\ TypeOK /\ Locally
      /\ Asked(c) \in Requests /\ Asked(c).project \notin Plain
      /\ Valid(Asked(c)) /\ Resolves(Asked(c))
      /\ call[c].tree = None /\ call[c].id = None /\ call[c].session = None
    BY DEF CheckQuota, At, CheckoutInv, PlaceInv, Asked, Placed
<1>2. CASE Goto(c, "add")
  <2>1. /\ Moves(c) /\ call'[c].pc = "add" /\ call'[c].request = call[c].request
        /\ call'[c].tree = call[c].tree /\ call'[c].id = call[c].id
        /\ call'[c].session = call[c].session
    BY <1>1, <1>2, GotoEffect
  <2>2. PlaceInv(c)'
    BY <1>1, <2>1 DEF PlaceInv, Placed, Asked
  <2>3. QED
    BY <1>1, <2>1, <2>2, LocalKeeps
<1>3. CASE WorktreeFails(c)
    BY <1>1, <1>3, FailedPlace, LocalKeeps
<1>4. QED
    BY <1>2, <1>3 DEF CheckQuota

\* AddWorktree makes a worktree, which is no project, or leaves the call with an error.
LEMMA AddWorktreeKeeps ==
    ASSUME CheckoutInv, NEW c \in Calls, AddWorktree(c)
    PROVE  CheckoutInv'
<1>1. /\ call[c].pc = "add" /\ TypeOK
      /\ Asked(c) \in Requests /\ Asked(c).project \notin Plain
    BY DEF AddWorktree, At, CheckoutInv, PlaceInv, Asked
<1>2. CASE /\ tree' = [tree EXCEPT ![WorktreePath(c)] = {}]
           /\ call' = [Touched(WorktreePath(c)) EXCEPT ![c] = [@ EXCEPT
                        !.tree = WorktreePath(c), !.id = WorkspaceId(c), !.pc = "judge"]]
           /\ UNCHANGED <<sessions, wrote, context, taskJson>>
  <2>1. /\ Moves(c)
        /\ call'[c].pc = "judge" /\ call'[c].tree = WorktreePath(c)
        /\ call'[c].id = WorkspaceId(c) /\ call'[c].request = call[c].request
    BY <1>1, <1>2, AddEffect
  <2>2. PlaceInv(c)'
    BY <1>1, <2>1, GivenPlace
  <2>3. WorktreePath(c) \in Worktrees /\ WorktreePath(c) \in Trees
    BY <1>1, WorktreeFacts
  <2>4. tree' \in [Trees -> (SUBSET Paths) \cup {Gone}]
    BY <1>1, <1>2 DEF TypeOK
  <2>5. \A p \in Projects : tree'[Checkout(p)] = tree[Checkout(p)]
    BY <1>1, <1>2, <2>3, CheckoutFacts DEF TypeOK
  <2>6. MainCheckoutUntouched'
    BY <2>5 DEF CheckoutInv, MainCheckoutUntouched
  <2>7. QED
    BY <1>1, <1>2, <2>1, <2>2, <2>4, <2>6, MoveKeeps DEF TypeOK
<1>3. CASE WorktreeFails(c) /\ Locally
    BY <1>1, <1>3, FailedPlace, LocalKeeps
<1>4. QED
    BY <1>2, <1>3 DEF AddWorktree

\* RemoveWorktree touches a worktree.
LEMMA RemoveWorktreeKeeps ==
    ASSUME CheckoutInv, NEW d \in Worktrees, RemoveWorktree(d)
    PROVE  CheckoutInv'
<1>1. /\ d \in Trees /\ \A p \in Projects : d # Checkout(p)
    BY CheckoutFacts DEF Trees
<1>2. QED
    BY <1>1, TouchKeeps DEF RemoveWorktree, CheckoutInv, TypeOK

\* A call that has been placed keeps its place, and an error.
LEMMA KeptPlace ==
    ASSUME CheckoutInv, NEW c \in Calls, Placed(c), call[c].pc # "ended", Placed(c)',
           call'[c].request = call[c].request, call'[c].tree = call[c].tree,
           call'[c].id = call[c].id, call[c].error => call'[c].error,
           call'[c].pc = "run" => ~call'[c].error
    PROVE  PlaceInv(c)'
<1>1. /\ Asked(c) \in Requests /\ Valid(Asked(c)) /\ Resolves(Asked(c))
      /\ InWorktree(c) \/ InCheckout(c)
      /\ call[c].id # None => InWorktree(c)
      /\ ~call[c].error /\ ~InWorktree(c) => Asked(c).project \in Plain
    BY DEF CheckoutInv, PlaceInv, Placed, Asked
<1>2. /\ Asked(c)' = Asked(c)
      /\ InWorktree(c)' <=> InWorktree(c)
      /\ InCheckout(c)' <=> InCheckout(c)
    BY DEF Asked, InWorktree, InCheckout, WorktreePath, WorkspaceId
<1>3. QED
    BY <1>1, <1>2 DEF PlaceInv, Placed, Asked

\* A placed call that only goes on.
LEMMA GotoPlace ==
    ASSUME CheckoutInv, NEW c \in Calls, Placed(c), call[c].pc # "ended",
           NEW pc \in {"finish", "ended"}, Goto(c, pc)
    PROVE  Moves(c) /\ PlaceInv(c)'
<1>1. /\ Moves(c) /\ call'[c].pc = pc /\ call'[c].request = call[c].request
      /\ call'[c].tree = call[c].tree /\ call'[c].id = call[c].id
      /\ call'[c].error = call[c].error
    BY GotoEffect DEF CheckoutInv
<1>2. QED
    BY <1>1, KeptPlace DEF Placed

\* Refuse ends the call.
LEMMA RefuseKeeps ==
    ASSUME CheckoutInv, NEW c \in Calls, Refuse(c)
    PROVE  CheckoutInv'
<1>1. Placed(c) /\ call[c].pc # "ended" /\ Goto(c, "ended")
    BY DEF Refuse, At, Placed
<1>2. PICK outcome \in Outcome : Record(c, outcome)
    BY DEF Refuse, Outcome
<1>3. QED
    BY <1>1, <1>2, GotoPlace, RecordKeeps DEF Refuse

\* Before lets only a call without an error run.
LEMMA BeforeKeeps ==
    ASSUME CheckoutInv, NEW c \in Calls, Before(c)
    PROVE  CheckoutInv'
<1>1. Placed(c) /\ call[c].pc # "ended" /\ Locally
    BY DEF Before, At, Placed
<1>2. CASE Load(c)
  <2>1. /\ Moves(c)
        /\ call'[c].pc = IF call[c].error THEN "after" ELSE "run"
        /\ call'[c].request = call[c].request /\ call'[c].tree = call[c].tree
        /\ call'[c].id = call[c].id /\ call'[c].error = call[c].error
    BY <1>2, LoadEffect DEF CheckoutInv
  <2>2. PlaceInv(c)'
    BY <1>1, <2>1, KeptPlace DEF Placed
  <2>3. QED
    BY <1>1, <2>1, <2>2, LocalKeeps
<1>3. CASE Goto(c, "ended")
    BY <1>1, <1>3, GotoPlace, LocalKeeps
<1>4. QED
    BY <1>2, <1>3 DEF Before

\* A path is added to the tree of a write task that has a place and no error: its
\* worktree, or a project without a commit.
LEMMA AddedPath ==
    ASSUME CheckoutInv, NEW c \in Calls, NEW path \in Paths,
           call[c].pc \in {"run", "verify"}, ~call[c].error, Asked(c).mode = "write",
           tree[call[c].tree] # Gone,
           Touch(call[c].tree, tree[call[c].tree] \cup {path}),
           wrote' = [wrote EXCEPT ![c] = @ \cup {path}],
           UNCHANGED <<sessions, context, taskJson>>
    PROVE  CheckoutInv'
<1>1. /\ Placed(c) /\ call[c].pc # "ended"
      /\ Asked(c) \in Requests /\ call[c].tree \in Trees
    BY PlacedTree DEF Placed
<1>2. tree[call[c].tree] \cup {path} \in (SUBSET Paths) \cup {Gone}
    BY <1>1 DEF CheckoutInv, TypeOK
<1>3. ASSUME NEW p \in Projects, call[c].tree = Checkout(p)
      PROVE  p \in Plain \ NoGit
  <2>1. ~InWorktree(c)
    BY <1>1, <1>3, WorktreeFacts, CheckoutFacts DEF InWorktree
  <2>2. call[c].tree = Checkout(Asked(c).project) /\ Asked(c).project \in Plain
    BY <1>1, <2>1 DEF CheckoutInv, PlaceInv, InCheckout
  <2>3. p = Asked(c).project
    BY <1>1, <1>3, <2>2, RequestFacts, CheckoutFacts
  <2>4. Asked(c).project \notin NoGit
    BY <1>1 DEF CheckoutInv, PlaceInv, Resolves
  <2>5. QED
    BY <2>2, <2>3, <2>4
<1>4. wrote' \in [Calls -> SUBSET Paths]
    BY DEF CheckoutInv, TypeOK
<1>5. QED
    BY <1>1, <1>2, <1>3, <1>4, TouchKeeps

\* RunnerWrites: the sandbox of a read task is read-only.
LEMMA RunnerWritesKeeps ==
    ASSUME CheckoutInv, NEW c \in Calls, NEW path \in Paths, RunnerWrites(c, path)
    PROVE  CheckoutInv'
<1>1. call[c].pc = "run" /\ ~call[c].error
    BY DEF RunnerWrites, At, CheckoutInv, PlaceInv
<1>2. Asked(c).mode = "write"
    BY <1>1, PlacedTree, RequestFacts DEF RunnerWrites, Sandbox, Placed
<1>3. QED
    BY <1>1, <1>2, AddedPath DEF RunnerWrites

\* VerifyWrites: only write tasks have something to verify.
LEMMA VerifyWritesKeeps ==
    ASSUME CheckoutInv, NEW c \in Calls, NEW path \in Paths, VerifyWrites(c, path)
    PROVE  CheckoutInv'
<1>1. call[c].pc = "verify" /\ ~call[c].error /\ Asked(c).verify
    BY DEF VerifyWrites, Verifying, At
<1>2. Asked(c).mode = "write"
    BY <1>1 DEF CheckoutInv, PlaceInv, Valid
<1>3. QED
    BY <1>1, <1>2, AddedPath DEF VerifyWrites

\* RunnerCommits leaves a clean tree.
LEMMA RunnerCommitsKeeps ==
    ASSUME CheckoutInv, NEW c \in Calls, RunnerCommits(c)
    PROVE  CheckoutInv'
<1>1. call[c].tree \in Trees
    BY PlacedTree DEF RunnerCommits, At, Placed
<1>2. QED
    BY <1>1, TouchKeeps DEF RunnerCommits, CheckoutInv, TypeOK

\* RunnerEnds: the session it ends with has worked in the tree of the call.
LEMMA RunnerEndsKeeps ==
    ASSUME CheckoutInv, NEW c \in Calls, RunnerEnds(c)
    PROVE  CheckoutInv'
<1>1. Placed(c) /\ call[c].pc # "ended" /\ call[c].tree \in Trees
    BY PlacedTree DEF RunnerEnds, At, Placed
<1>2. /\ Moves(c)
      /\ call'[c].pc = "after"
      /\ call'[c].request = call[c].request /\ call'[c].tree = call[c].tree
      /\ call'[c].id = call[c].id
      /\ call[c].error => call'[c].error
      /\ \/ context' = context
         \/ context' = [context EXCEPT ![call'[c].session] = @ \cup {call[c].tree}]
    BY RunnerEndsEffect DEF CheckoutInv
<1>3. PlaceInv(c)'
    BY <1>1, <1>2, KeptPlace DEF Placed
<1>4. context' \in [Session -> SUBSET Trees]
    BY <1>1, <1>2 DEF CheckoutInv, TypeOK
<1>5. QED
    BY <1>2, <1>3, <1>4, MoveKeeps
        DEF RunnerEnds, CheckoutInv, TypeOK, MainCheckoutUntouched

\* After may add an error.
LEMMA AfterKeeps ==
    ASSUME CheckoutInv, NEW c \in Calls, After(c)
    PROVE  CheckoutInv'
<1>1. Placed(c) /\ call[c].pc # "ended" /\ Locally /\ call[c].tree \in Trees
    BY PlacedTree DEF After, At, Placed
<1>2. /\ Moves(c)
      /\ call'[c].pc = "verify"
      /\ call'[c].request = call[c].request /\ call'[c].tree = call[c].tree
      /\ call'[c].id = call[c].id
      /\ call[c].error => call'[c].error
    BY <1>1, AfterEffect DEF CheckoutInv
<1>3. PlaceInv(c)'
    BY <1>1, <1>2, KeptPlace DEF Placed
<1>4. QED
    BY <1>1, <1>2, <1>3, LocalKeeps

\* Check may add an error.
LEMMA CheckKeeps ==
    ASSUME CheckoutInv, NEW c \in Calls, Check(c)
    PROVE  CheckoutInv'
<1>1. Placed(c) /\ call[c].pc # "ended" /\ Locally
    BY DEF Check, At, Placed
<1>2. /\ Moves(c)
      /\ call'[c].pc = "save"
      /\ call'[c].request = call[c].request /\ call'[c].tree = call[c].tree
      /\ call'[c].id = call[c].id
      /\ call[c].error => call'[c].error
    BY CheckEffect DEF CheckoutInv
<1>3. PlaceInv(c)'
    BY <1>1, <1>2, KeptPlace DEF Placed
<1>4. QED
    BY <1>1, <1>2, <1>3, LocalKeeps

\* VerifyRaises ends the call.
LEMMA VerifyRaisesKeeps ==
    ASSUME CheckoutInv, NEW c \in Calls, VerifyRaises(c)
    PROVE  CheckoutInv'
<1>1. Placed(c) /\ call[c].pc # "ended" /\ Goto(c, "ended") /\ Locally
    BY DEF VerifyRaises, Verifying, At, Placed
<1>2. QED
    BY <1>1, GotoPlace, LocalKeeps

\* SaveSession saves what the runner ended with.
LEMMA SaveSessionKeeps ==
    ASSUME CheckoutInv, NEW c \in Calls, SaveSession(c)
    PROVE  CheckoutInv'
<1>1. Placed(c) /\ call[c].pc # "ended" /\ Goto(c, "finish")
    BY DEF SaveSession, At, Placed
<1>2. call[c].session \in Session \cup {None}
    BY LocalFacts DEF CheckoutInv
<1>3. sessions' \in [Ids -> Session \cup {None}]
    BY <1>2 DEF SaveSession, CheckoutInv, TypeOK
<1>4. QED
    BY <1>1, <1>3, GotoPlace, MoveKeeps
        DEF SaveSession, CheckoutInv, TypeOK, MainCheckoutUntouched

\* Finish ends the call.
LEMMA FinishKeeps ==
    ASSUME CheckoutInv, NEW c \in Calls, Finish(c)
    PROVE  CheckoutInv'
<1>1. Placed(c) /\ call[c].pc # "ended" /\ Goto(c, "ended")
    BY DEF Finish, At, Placed
<1>2. PICK outcome \in Outcome : Record(c, outcome)
    BY DEF Finish, Outcome
<1>3. QED
    BY <1>1, <1>2, GotoPlace, RecordKeeps DEF Finish

\* Every step keeps the places of the calls and the projects' own checkouts.
LEMMA CheckoutStep == CheckoutInv /\ [Next]_vars => CheckoutInv'
<1> SUFFICES ASSUME CheckoutInv, [Next]_vars
             PROVE  CheckoutInv'
    OBVIOUS
<1>1. ASSUME NEW c \in Calls, Progress(c)
      PROVE  CheckoutInv'
    BY <1>1, PrepareKeeps, CheckQuotaKeeps, AddWorktreeKeeps, RefuseKeeps, BeforeKeeps,
       RunnerEndsKeeps, AfterKeeps, CheckKeeps, VerifyRaisesKeeps, SaveSessionKeeps,
       FinishKeeps
       DEF Progress
<1>2. CASE UNCHANGED vars
    BY <1>2 DEF vars, CheckoutInv, TypeOK, PlaceInv, Placed, InWorktree, InCheckout,
       Asked, WorktreePath, WorkspaceId, MainCheckoutUntouched
<1>3. QED
    BY <1>1, <1>2, BeginKeeps, RunnerWritesKeeps, VerifyWritesKeeps, RunnerCommitsKeeps,
       RemoveWorktreeKeeps
       DEF Next

\* At first no tree is dirty, and no call has asked for anything.
LEMMA CheckoutInit == Init => CheckoutInv
<1> SUFFICES ASSUME Init
             PROVE  CheckoutInv
    OBVIOUS
<1>1. Fresh \in Local
    BY DEF Fresh, Local
<1>2. tree \in [Trees -> (SUBSET Paths) \cup {Gone}]
    BY DEF Init
<1>3. TypeOK
    BY <1>1, <1>2 DEF Init, TypeOK
<1>4. \A c \in Calls : PlaceInv(c)
    BY DEF Init, Fresh, PlaceInv, Placed
<1>5. MainCheckoutUntouched
    BY CheckoutFacts DEF Init, MainCheckoutUntouched
<1>6. QED
    BY <1>3, <1>4, <1>5 DEF CheckoutInv

\* The inductive invariant of the types, the places and the projects holds always.
LEMMA CheckoutAlways == Spec => []CheckoutInv
    BY CheckoutInit, CheckoutStep, PTL DEF Spec

\* The local state of the calls, the trees, sessions and records have their types.
THEOREM TypeCorrect == Spec => []TypeOK
    BY CheckoutAlways, PTL DEF CheckoutInv

\* No task writes into a project that has a commit, nor into one that is no Git work
\* tree, whatever else runs and is removed at the same time (policy.py:74,
\* worktree.py:34-85, task_service.py:82-94, 159).
THEOREM CheckoutsStayUntouched == Spec => []MainCheckoutUntouched
    BY CheckoutAlways, PTL DEF CheckoutInv

-----------------------------------------------------------------------------
(* The allow-list, when nothing takes a path out of a tree again. *)

\* No tree loses a path.
Grows == \A d \in Trees : tree[d] \cap Paths \subseteq tree'[d]

\* What another call has written stays where it was found.
LEMMA WrittenStays ==
    ASSUME AllowInv, NEW b \in Calls, Stays(b), Grows,
           wrote'[b] = wrote[b], taskJson'[b] = taskJson[b]
    PROVE  WrittenInv(b)'
<1>1. WrittenInv(b) /\ wrote[b] \subseteq Paths
    BY DEF AllowInv, CheckoutInv, TypeOK
<1>2. call[b].pc \in {"run", "after"} => wrote[b] \subseteq tree'[call[b].tree]
    BY <1>1, PlacedTree DEF WrittenInv, Grows, AllowInv, Placed
<1>3. QED
    BY <1>1, <1>2 DEF WrittenInv, Stays, Asked

\* A step of c that keeps what is known of its own writes.
LEMMA WrittenMoves ==
    ASSUME AllowInv, CheckoutInv', NEW c \in Calls, Moves(c), WrittenInv(c)', Grows,
           \A b \in Calls \ {c} : wrote'[b] = wrote[b] /\ taskJson'[b] = taskJson[b]
    PROVE  AllowInv'
<1>1. ASSUME NEW b \in Calls
      PROVE  WrittenInv(b)'
  <2>1. CASE b = c
    BY <2>1
  <2>2. CASE b # c
    BY <2>2, WrittenStays DEF Moves
  <2>3. QED
    BY <2>1, <2>2
<1>2. QED
    BY <1>1 DEF AllowInv

\* A call that has not begun to run has written nothing.
LEMMA WrittenBefore ==
    ASSUME AllowInv, NEW c \in Calls,
           call[c].pc \in {"ready", "prepare", "quota", "add", "judge"},
           wrote' = wrote, taskJson'[c] # "DONE"
    PROVE  WrittenInv(c)'
<1>1. wrote'[c] = {}
    BY DEF AllowInv, WrittenInv
<1>2. QED
    BY <1>1 DEF WrittenInv

\* A step of a call that has not begun to run.
LEMMA EarlyKeepsAllow ==
    ASSUME AllowInv, CheckoutInv', NEW c \in Calls, Moves(c), Grows,
           call[c].pc \in {"ready", "prepare", "quota", "add", "judge"},
           UNCHANGED <<wrote, taskJson>>
    PROVE  AllowInv'
<1>1. taskJson[c] # "DONE"
    BY DEF AllowInv, WrittenInv
<1>2. QED
    BY <1>1, WrittenBefore, WrittenMoves

\* The steps before the run write nothing, and record no success.
LEMMA BeforeRunKeepsAllow ==
    ASSUME AllowInv, CheckoutInv', NEW c \in Calls,
           \/ \E request \in Requests : Begin(c, request)
           \/ Prepare(c) \/ CheckQuota(c) \/ AddWorktree(c) \/ Refuse(c) \/ Before(c)
    PROVE  AllowInv'
<1>1. CheckoutInv /\ TypeOK
    BY DEF AllowInv, CheckoutInv
<1>a. call[c].pc # "ready" => Asked(c) \in Requests
    BY <1>1 DEF CheckoutInv, PlaceInv, Asked
<1>2. CASE \E request \in Requests : Begin(c, request)
    BY <1>1, <1>2, BeginEffect, EarlyKeepsAllow DEF Begin, At, Locally, Grows
<1>3. CASE Prepare(c)
  <2>1. Moves(c)
    <3>1. Asked(c) \in Requests
      BY <1>3, <1>a DEF Prepare, At
    <3>2. CASE Execute(c, Checkout(Asked(c).project), None)
      BY <1>1, <3>1, <3>2, ExecuteEffect, RequestFacts, CheckoutFacts
    <3>3. CASE Execute(c, WorktreePath(c), WorkspaceId(c))
      BY <1>1, <3>1, <3>3, ExecuteEffect, WorktreeFacts
    <3>4. CASE Goto(c, "quota")
      BY <1>1, <3>4, GotoEffect
    <3>5. QED
      BY <1>3, <3>2, <3>3, <3>4 DEF Prepare
  <2>2. QED
    BY <1>3, <2>1, EarlyKeepsAllow DEF Prepare, At, Locally, Grows
<1>4. CASE CheckQuota(c)
  <2>1. Moves(c)
    BY <1>1, <1>a, <1>4, GotoEffect, WorktreeFailsEffect DEF CheckQuota, At
  <2>2. QED
    BY <1>4, <2>1, EarlyKeepsAllow DEF CheckQuota, At, Locally, Grows
<1>5. CASE AddWorktree(c)
  <2>1. Asked(c) \in Requests /\ call[c].pc = "add"
    BY <1>5, <1>a DEF AddWorktree, At
  <2>2. Moves(c)
    BY <1>1, <2>1, <1>5, AddEffect, WorktreeFailsEffect DEF AddWorktree
  <2>3. Grows
    <3>1. CASE /\ tree[WorktreePath(c)] = Gone
               /\ tree' = [tree EXCEPT ![WorktreePath(c)] = {}]
      <4>1. tree[WorktreePath(c)] \cap Paths = {}
        BY <3>1, DistinctAssumption DEF Gone
      <4>2. QED
        BY <1>1, <3>1, <4>1 DEF Grows, TypeOK
    <3>2. CASE tree' = tree
      BY <3>2 DEF Grows
    <3>3. QED
      BY <1>5, <3>1, <3>2 DEF AddWorktree, Locally
  <2>4. UNCHANGED <<wrote, taskJson>>
    BY <1>5 DEF AddWorktree, Locally
  <2>5. QED
    BY <2>1, <2>2, <2>3, <2>4, EarlyKeepsAllow
<1>6. CASE Refuse(c)
  <2>1. Moves(c) /\ call[c].pc = "judge" /\ UNCHANGED <<tree, wrote>>
    BY <1>1, <1>6, GotoEffect DEF Refuse, At
  <2>2. PICK outcome \in {"BLOCKED", "APPROVAL_REQUIRED"} : Record(c, outcome)
    BY <1>6 DEF Refuse
  <2>3. taskJson' = [taskJson EXCEPT ![c] = outcome]
    BY <2>2 DEF Record
  <2>4. taskJson'[c] # "DONE" /\ \A b \in Calls \ {c} : taskJson'[b] = taskJson[b]
    BY <1>1, <2>2, <2>3 DEF TypeOK
  <2>5. QED
    BY <2>1, <2>4, WrittenBefore, WrittenMoves DEF Grows
<1>7. CASE Before(c)
  <2>1. Moves(c)
    BY <1>1, <1>7, GotoEffect, LoadEffect DEF Before
  <2>2. QED
    BY <1>7, <2>1, EarlyKeepsAllow DEF Before, At, Locally, Grows
<1>8. QED
    BY <1>2, <1>3, <1>4, <1>5, <1>6, <1>7

\* What the runner writes is in the tree.
LEMMA RunnerWritesKeepsAllow ==
    ASSUME AllowInv, CheckoutInv', NEW c \in Calls, NEW path \in Paths,
           RunnerWrites(c, path)
    PROVE  AllowInv'
<1>1. CheckoutInv /\ TypeOK
    BY DEF AllowInv, CheckoutInv
<1>2. call[c].tree \in Trees /\ call[c].pc = "run"
    BY <1>1, PlacedTree DEF RunnerWrites, At, Placed
<1>3. /\ tree' = [tree EXCEPT ![call[c].tree] = tree[call[c].tree] \cup {path}]
      /\ wrote' = [wrote EXCEPT ![c] = @ \cup {path}]
      /\ taskJson' = taskJson
    BY DEF RunnerWrites, Touch
<1>4. Grows /\ tree'[call[c].tree] = tree[call[c].tree] \cup {path}
    BY <1>1, <1>2, <1>3 DEF Grows, TypeOK
<1>5. \A b \in Calls : Stays(b)
    BY <1>1, TouchedEffect DEF RunnerWrites, Touch, Stays
<1>6. call' \in [Calls -> Local]
    BY <1>1, TouchedEffect DEF RunnerWrites, Touch
<1>7. WrittenInv(c)'
  <2>1. wrote'[c] = wrote[c] \cup {path} /\ wrote[c] \subseteq tree[call[c].tree]
    BY <1>1, <1>2, <1>3 DEF TypeOK, AllowInv, WrittenInv
  <2>2. call'[c].pc = "run" /\ call'[c].tree = call[c].tree
    BY <1>2, <1>5 DEF Stays
  <2>3. wrote'[c] \subseteq tree'[call'[c].tree]
    BY <1>4, <2>1, <2>2
  <2>4. taskJson'[c] # "DONE"
    BY <1>2, <1>3 DEF AllowInv, WrittenInv
  <2>5. QED
    BY <2>2, <2>3, <2>4 DEF WrittenInv
<1>8. \A b \in Calls \ {c} : wrote'[b] = wrote[b] /\ taskJson'[b] = taskJson[b]
    BY <1>1, <1>3 DEF TypeOK
<1>9. QED
    BY <1>4, <1>5, <1>6, <1>7, <1>8, WrittenMoves DEF Moves

\* What a call has written is still in the status, and the status is in the allow-list.
LEMMA AfterRunKeepsAllow ==
    ASSUME AllowInv, CheckoutInv', NEW c \in Calls,
           \/ RunnerEnds(c) \/ After(c) \/ Check(c) \/ VerifyRaises(c) \/ SaveSession(c)
    PROVE  AllowInv'
<1>1. CheckoutInv /\ TypeOK /\ WrittenInv(c)
    BY DEF AllowInv, CheckoutInv
<1>2. UNCHANGED <<tree, wrote, taskJson>> /\ Grows
    BY DEF RunnerEnds, After, Check, VerifyRaises, SaveSession, Locally, Grows
<1>3. taskJson[c] # "DONE"
    BY <1>1 DEF WrittenInv, RunnerEnds, After, Check, VerifyRaises, Verifying,
       SaveSession, At
<1>4. ASSUME Moves(c), WrittenInv(c)'
      PROVE  AllowInv'
    BY <1>2, <1>4, WrittenMoves
<1>5. CASE RunnerEnds(c)
  <2>1. Moves(c) /\ call'[c].pc = "after" /\ call'[c].tree = call[c].tree
    BY <1>1, <1>5, RunnerEndsEffect
  <2>2. wrote[c] \subseteq tree[call[c].tree]
    BY <1>1, <1>5 DEF WrittenInv, RunnerEnds, At
  <2>3. QED
    BY <1>2, <1>3, <1>4, <2>1, <2>2 DEF WrittenInv
<1>6. CASE After(c)
  <2>1. call[c].tree \in Trees /\ wrote[c] \subseteq tree[call[c].tree]
    BY <1>1, <1>6, PlacedTree DEF WrittenInv, After, At, Placed
  <2>2. Moves(c) /\ call'[c].pc = "verify" /\ call'[c].status = tree[call[c].tree]
    BY <1>1, <1>6, <2>1, AfterEffect
  <2>3. QED
    BY <1>2, <1>3, <1>4, <2>1, <2>2 DEF WrittenInv
<1>7. CASE Check(c)
  <2>1. /\ Moves(c) /\ call'[c].pc = "save"
        /\ call'[c].request = call[c].request
        /\ call[c].error \/ Unexpected(c) => call'[c].error
    BY <1>1, <1>7, CheckEffect
  <2>2. wrote[c] \subseteq call[c].status /\ call[c].pc = "verify"
    BY <1>1, <1>7 DEF WrittenInv, Check, At
  <2>3. ASSUME ~call'[c].error, Asked(c).allow # {}
        PROVE  wrote[c] \subseteq Asked(c).allow
    <3>1. Asked(c) \in Requests /\ Valid(Asked(c))
      BY <1>1, <2>2 DEF CheckoutInv, PlaceInv, Asked
    <3>2. Asked(c).mode = "write"
      BY <2>3, <3>1 DEF Valid
    <3>3. call[c].status \subseteq Asked(c).allow
      BY <2>1, <2>3, <3>2 DEF Unexpected, AllAllowed
    <3>4. QED
      BY <2>2, <3>3
  <2>4. WrittenInv(c)'
    BY <1>2, <1>3, <2>1, <2>3 DEF WrittenInv, Asked
  <2>5. QED
    BY <1>4, <2>1, <2>4
<1>8. CASE VerifyRaises(c)
  <2>1. Moves(c) /\ call'[c].pc = "ended"
    BY <1>1, <1>8, GotoEffect DEF VerifyRaises
  <2>2. QED
    BY <1>2, <1>3, <1>4, <2>1 DEF WrittenInv
<1>9. CASE SaveSession(c)
  <2>1. /\ Moves(c) /\ call'[c].pc = "finish" /\ call'[c].error = call[c].error
        /\ call'[c].request = call[c].request /\ call[c].pc = "save"
    BY <1>1, <1>9, GotoEffect DEF SaveSession, At
  <2>2. WrittenInv(c)'
    BY <1>1, <1>2, <1>3, <2>1 DEF WrittenInv, Asked
  <2>3. QED
    BY <1>4, <2>1, <2>2
<1>10. QED
    BY <1>5, <1>6, <1>7, <1>8, <1>9

\* Only a call without an error is DONE.
LEMMA FinishKeepsAllow ==
    ASSUME AllowInv, CheckoutInv', NEW c \in Calls, Finish(c)
    PROVE  AllowInv'
<1>1. CheckoutInv /\ TypeOK /\ WrittenInv(c)
    BY DEF AllowInv, CheckoutInv
<1>2. /\ Moves(c) /\ call'[c].pc = "ended" /\ call'[c].request = call[c].request
      /\ call[c].pc = "finish"
    BY <1>1, GotoEffect DEF Finish, At
<1>3. /\ UNCHANGED <<tree, wrote>>
      /\ taskJson'[c] = "DONE" => ~call[c].error
      /\ \A b \in Calls \ {c} : taskJson'[b] = taskJson[b]
    BY <1>1 DEF Finish, Record, TypeOK
<1>4. WrittenInv(c)'
    BY <1>1, <1>2, <1>3 DEF WrittenInv, Asked
<1>5. QED
    BY <1>2, <1>3, <1>4, WrittenMoves DEF Grows

\* Every step keeps what is known of the writes, if trees are not disturbed.
LEMMA AllowStep ==
    ASSUME Undisturbed, AllowInv, CheckoutInv', [Next]_vars
    PROVE  AllowInv'
<1>1. CASE UNCHANGED vars
    BY <1>1 DEF vars, AllowInv, WrittenInv, Asked
<1>2. ASSUME NEW c \in Calls, Progress(c)
      PROVE  AllowInv'
    BY <1>2, BeforeRunKeepsAllow, AfterRunKeepsAllow, FinishKeepsAllow DEF Progress
<1>3. \A c \in Calls, path \in Paths : ~VerifyWrites(c, path)
    BY DEF Undisturbed, VerifyWrites
<1>4. \A c \in Calls : ~RunnerCommits(c)
    BY DEF Undisturbed, RunnerCommits
<1>5. \A d \in Worktrees : ~RemoveWorktree(d)
    BY DEF Undisturbed, RemoveWorktree
<1>6. QED
    BY <1>1, <1>2, <1>3, <1>4, <1>5, BeforeRunKeepsAllow, RunnerWritesKeepsAllow DEF Next

\* At first nobody has written anything.
LEMMA AllowInit == Init => AllowInv
<1> SUFFICES ASSUME Init
             PROVE  AllowInv
    OBVIOUS
<1>1. ASSUME NEW c \in Calls
      PROVE  WrittenInv(c)
  <2>1. wrote[c] = {} /\ taskJson[c] # "DONE" /\ call[c].pc = "ready"
    BY OutcomeAssumption DEF Init, Fresh, Outcome
  <2>2. QED
    BY <2>1 DEF WrittenInv
<1>2. QED
    BY <1>1, CheckoutInit DEF AllowInv

\* If nothing is committed or removed and verification does not write, a task that is
\* DONE has written inside its allow-list only (task_service.py:195-199).
THEOREM AllowlistIsKept ==
    ASSUME Undisturbed
    PROVE  Spec => []AllowlistKept
<1>1. AllowInv /\ CheckoutInv' /\ [Next]_vars => AllowInv'
    BY AllowStep
<1>2. AllowInv => AllowlistKept
    BY DEF AllowInv, WrittenInv, AllowlistKept
<1>3. QED
    BY <1>1, <1>2, AllowInit, CheckoutAlways, PTL DEF Spec

-----------------------------------------------------------------------------
(* Sessions, when no two projects use one workspace name. *)

\* Calls of one workspace work in one worktree.
LEMMA SameWorkspaceSameTree ==
    ASSUME OneNamePerWorkspace, CheckoutInv, NEW b \in Calls, NEW c \in Calls,
           call[b].id # None, call[b].id = call[c].id
    PROVE  call[b].tree = call[c].tree
<1>1. /\ InWorktree(b) /\ InWorktree(c)
      /\ call[b].pc # "ready" /\ call[c].pc # "ready"
    BY DEF CheckoutInv, PlaceInv, Placed
<1>2. /\ Asked(b) \in Requests /\ Asked(c) \in Requests
      /\ Asked(b).project \notin Plain /\ Asked(c).project \notin Plain
    BY <1>1 DEF CheckoutInv, PlaceInv, InWorktree, Asked
<1>3. WorkspaceId(b) = WorkspaceId(c)
    BY <1>1 DEF InWorktree
<1>4. CASE b = c
    BY <1>4
<1>5. CASE b # c
  <2>1. Asked(b).workspace \in WorkspaceIds \cup {None}
    BY <1>2, RequestFacts
  <2>2. Asked(c).workspace \in WorkspaceIds \cup {None}
    BY <1>2, RequestFacts
  <2>3. Asked(b).workspace # None /\ Asked(b).workspace = Asked(c).workspace
    BY <1>3, <1>5, <2>1, <2>2, DistinctAssumption DEF WorkspaceId, Ids
  <2>4. NameOf[Asked(b).project] = NameOf[Asked(c).project]
    BY <1>2, <2>3 DEF OneNamePerWorkspace
  <2>5. QED
    BY <1>1, <1>3, <2>4 DEF InWorktree, WorktreePath
<1>6. QED
    BY <1>4, <1>5

\* Where a call works, once it has been placed, does not change.
Settled ==
    \A b \in Calls : Placed(b) => /\ Placed(b)'
                                  /\ call'[b].tree = call[b].tree
                                  /\ call'[b].id = call[b].id

\* A step of c settles if it leaves c where it is, or gives it its first place.
LEMMA MovesSettle ==
    ASSUME NEW c \in Calls, Moves(c),
           Placed(c) => /\ Placed(c)'
                        /\ call'[c].tree = call[c].tree /\ call'[c].id = call[c].id
    PROVE  Settled
    BY DEF Settled, Moves, Stays, Placed

\* A step keeps the sessions where they are, if what each call then holds, what is
\* saved and where the sessions have worked agreed with the places before it.
LEMMA SessionKeeps ==
    ASSUME ContextInv, Settled, call' \in [Calls -> Local],
           \A b \in Calls : call'[b].session # None =>
                /\ Placed(b)
                /\ call'[b].session \in Session
                /\ WorksWith(b, call'[b].session),
           \A id \in Ids : sessions'[id] # None =>
                /\ sessions'[id] \in Session
                /\ call[sessions'[id]].id = id,
           \A s \in Session : context'[s] \subseteq {call[s].tree},
           \A s \in Session : ~Placed(s) => context'[s] = {}
    PROVE  SessionInv'
<1>1. ASSUME NEW b \in Calls, call'[b].session # None
      PROVE  WorksWith(b, call[b].session)'
  <2>1. /\ Placed(b) /\ call'[b].session \in Calls
        /\ WorksWith(b, call'[b].session)
    BY <1>1 DEF Session
  <2>2. PICK s \in Calls : s = call'[b].session
    BY <2>1
  <2>3. WorksWith(b, s)'
    BY <2>1, <2>2 DEF WorksWith, Settled
  <2>4. QED
    BY <2>2, <2>3 DEF WorksWith, Placed
<1>2. ASSUME NEW id \in Ids, sessions'[id] # None
      PROVE  call'[sessions'[id]].id = id
  <2>1. PICK s \in Calls : s = sessions'[id] /\ call[s].id = id
    BY <1>2 DEF Session
  <2>2. id # None
    BY DistinctAssumption
  <2>3. Placed(s)
    BY <2>1, <2>2 DEF ContextInv, CheckoutInv, PlaceInv
  <2>4. QED
    BY <2>1, <2>3 DEF Settled
<1>3. ASSUME NEW s \in Session
      PROVE  context'[s] \subseteq {call'[s].tree} /\ (~Placed(s)' => context'[s] = {})
    BY <1>3 DEF Settled, Session
<1>4. QED
    BY <1>1, <1>2, <1>3 DEF SessionInv

\* A step that keeps all sessions.
LEMMA SameSessions ==
    ASSUME ContextInv, Settled, call' \in [Calls -> Local],
           \A b \in Calls : call'[b].session = call[b].session,
           UNCHANGED <<sessions, context>>
    PROVE  SessionInv'
<1>1. ASSUME NEW b \in Calls, call'[b].session # None
      PROVE  /\ Placed(b)
             /\ call'[b].session \in Session
             /\ WorksWith(b, call'[b].session)
  <2>1. call[b].session # None /\ call[b].session \in Session
    BY <1>1, LocalFacts DEF ContextInv, CheckoutInv
  <2>2. Placed(b)
    BY <2>1 DEF ContextInv, CheckoutInv, PlaceInv
  <2>3. WorksWith(b, call[b].session)
    BY <2>1 DEF ContextInv, SessionInv
  <2>4. QED
    BY <2>1, <2>2, <2>3
<1>2. \A id \in Ids : sessions[id] \in Session \cup {None}
    BY DEF ContextInv, CheckoutInv, TypeOK
<1>3. QED
    BY <1>1, <1>2, SessionKeeps DEF ContextInv, SessionInv

\* A step of c that keeps its session.
LEMMA MovesKeepSessions ==
    ASSUME ContextInv, NEW c \in Calls, Moves(c),
           Placed(c) => /\ Placed(c)'
                        /\ call'[c].tree = call[c].tree /\ call'[c].id = call[c].id,
           call'[c].session = call[c].session,
           UNCHANGED <<sessions, context>>
    PROVE  SessionInv'
    BY MovesSettle, SameSessions DEF Moves, Stays

\* Where a call goes on only, its session stays.
LEMMA GotoKeepsSessions ==
    ASSUME ContextInv, NEW c \in Calls,
           NEW pc \in {"ready", "prepare", "quota", "add", "judge", "run", "after",
                       "verify", "save", "finish", "ended"},
           Goto(c, pc), Placed(c) => pc \notin {"ready", "prepare", "quota", "add"},
           UNCHANGED <<sessions, context>>
    PROVE  SessionInv'
<1>1. /\ Moves(c) /\ call'[c].pc = pc
      /\ call'[c].tree = call[c].tree /\ call'[c].id = call[c].id
      /\ call'[c].session = call[c].session
    BY GotoEffect DEF ContextInv, CheckoutInv
<1>2. QED
    BY <1>1, MovesKeepSessions DEF Placed

\* A step that only touches a tree keeps the sessions.
LEMMA TouchKeepsSessions ==
    ASSUME ContextInv, NEW d, NEW paths, Touch(d, paths), UNCHANGED <<sessions, context>>
    PROVE  SessionInv'
<1>1. call' \in [Calls -> Local] /\ \A b \in Calls : Stays(b)
    BY TouchedEffect DEF Touch, Stays, ContextInv, CheckoutInv
<1>2. Settled
    BY <1>1 DEF Settled, Stays, Placed
<1>3. QED
    BY <1>1, <1>2, SameSessions DEF Stays

\* A call that is given its place has no session yet.
LEMMA PlacingKeepsSessions ==
    ASSUME ContextInv, NEW c \in Calls,
           \/ \E request \in Requests : Begin(c, request)
           \/ Prepare(c) \/ CheckQuota(c) \/ AddWorktree(c)
    PROVE  SessionInv'
<1>1. CheckoutInv /\ TypeOK
    BY DEF ContextInv, CheckoutInv
<1>2. ~Placed(c) /\ UNCHANGED <<sessions, context>>
    BY DEF Begin, Prepare, CheckQuota, AddWorktree, At, Placed, Locally
<1>3. ASSUME Moves(c), call'[c].session = call[c].session
      PROVE  SessionInv'
    BY <1>2, <1>3, MovesKeepSessions
<1>4. CASE \E request \in Requests : Begin(c, request)
    BY <1>1, <1>3, <1>4, BeginEffect
<1>5. CASE Prepare(c) \/ CheckQuota(c) \/ AddWorktree(c)
  <2>1. Asked(c) \in Requests
    BY <1>1, <1>5 DEF CheckoutInv, PlaceInv, Asked, Prepare, CheckQuota, AddWorktree, At
  <2>2. CASE Execute(c, Checkout(Asked(c).project), None)
    BY <1>1, <1>3, <2>1, <2>2, ExecuteEffect, RequestFacts, CheckoutFacts
  <2>3. CASE Execute(c, WorktreePath(c), WorkspaceId(c))
    BY <1>1, <1>3, <2>1, <2>3, ExecuteEffect, WorktreeFacts
  <2>4. CASE Goto(c, "quota") \/ Goto(c, "add")
    BY <1>1, <1>3, <2>4, GotoEffect
  <2>5. CASE WorktreeFails(c)
    BY <1>1, <1>3, <2>1, <2>5, WorktreeFailsEffect
  <2>6. CASE call' = [Touched(WorktreePath(c)) EXCEPT ![c] = [@ EXCEPT
                        !.tree = WorktreePath(c), !.id = WorkspaceId(c), !.pc = "judge"]]
    BY <1>1, <1>3, <2>1, <2>6, AddEffect
  <2>7. QED
    BY <1>5, <2>2, <2>3, <2>4, <2>5, <2>6 DEF Prepare, CheckQuota, AddWorktree
<1>6. QED
    BY <1>4, <1>5

\* What is held, saved and has been worked in before a step.
LEMMA SessionFacts ==
    ASSUME ContextInv, NEW c \in Calls, call[c].session # None
    PROVE  /\ Placed(c)
           /\ call[c].session \in Session
           /\ WorksWith(c, call[c].session)
<1>1. call[c].session \in Session
    BY LocalFacts DEF ContextInv, CheckoutInv
<1>2. QED
    BY <1>1 DEF ContextInv, CheckoutInv, PlaceInv, SessionInv

\* The session saved for a workspace was started in its worktree.
LEMMA LoadKeepsSessions ==
    ASSUME OneNamePerWorkspace, ContextInv, NEW c \in Calls, Before(c)
    PROVE  SessionInv'
<1>1. Placed(c) /\ UNCHANGED <<sessions, context>>
    BY DEF Before, At, Placed, Locally
<1>2. CASE Goto(c, "ended")
    BY <1>1, <1>2, GotoKeepsSessions
<1>3. CASE Load(c)
  <2>1. /\ Moves(c)
        /\ call'[c].pc = IF call[c].error THEN "after" ELSE "run"
        /\ call'[c].session = Saved(call[c].id)
        /\ call'[c].tree = call[c].tree /\ call'[c].id = call[c].id
    BY <1>3, LoadEffect DEF ContextInv, CheckoutInv
  <2>2. Settled /\ call' \in [Calls -> Local]
    BY <2>1, MovesSettle DEF Placed, Moves
  <2>3. \A id \in Ids : sessions[id] \in Session \cup {None}
    BY DEF ContextInv, CheckoutInv, TypeOK
  <2>4. ASSUME call'[c].session # None
        PROVE  call'[c].session \in Session /\ WorksWith(c, call'[c].session)
    <3>1. /\ call[c].id # None /\ call[c].id \in Ids
          /\ call'[c].session = sessions[call[c].id]
      BY <2>1, <2>4, LocalFacts DEF Saved, SessionPath, ContextInv, CheckoutInv
    <3>2. PICK s \in Calls : s = call'[c].session
      BY <2>3, <2>4, <3>1 DEF Session
    <3>3. call[s].id = call[c].id
      BY <2>4, <3>1, <3>2 DEF ContextInv, SessionInv
    <3>4. call[s].tree = call[c].tree
      BY <3>1, <3>3, SameWorkspaceSameTree DEF ContextInv
    <3>5. Placed(s)
      BY <3>1, <3>3 DEF ContextInv, CheckoutInv, PlaceInv
    <3>6. WorksWith(c, s)
      BY <3>3, <3>4, <3>5 DEF WorksWith
    <3>7. QED
      BY <3>2, <3>6 DEF Session
  <2>5. ASSUME NEW b \in Calls, call'[b].session # None
        PROVE  /\ Placed(b)
               /\ call'[b].session \in Session
               /\ WorksWith(b, call'[b].session)
    <3>1. CASE b = c
      BY <1>1, <2>4, <2>5, <3>1
    <3>2. CASE b # c
      <4>1. call'[b].session = call[b].session
        BY <2>1, <3>2 DEF Moves, Stays
      <4>2. QED
        BY <2>5, <4>1, SessionFacts
    <3>3. QED
      BY <3>1, <3>2
  <2>6. QED
    BY <1>1, <2>2, <2>3, <2>5, SessionKeeps DEF ContextInv, SessionInv
<1>4. QED
    BY <1>2, <1>3 DEF Before

\* The runner goes on with its session, or starts one where the call works.
LEMMA RunnerEndsKeepsSessions ==
    ASSUME ContextInv, NEW c \in Calls, RunnerEnds(c)
    PROVE  SessionInv'
<1>1. Placed(c) /\ sessions' = sessions
    BY DEF RunnerEnds, At, Placed
<1>2. /\ Moves(c)
      /\ call'[c].pc = "after"
      /\ call'[c].tree = call[c].tree /\ call'[c].id = call[c].id
      /\ call'[c].session \in {call[c].session, c}
      /\ \/ context' = context
         \/ /\ call'[c].session # None
            /\ context' = [context EXCEPT ![call'[c].session] = @ \cup {call[c].tree}]
    BY RunnerEndsEffect DEF ContextInv, CheckoutInv
<1>3. Settled /\ call' \in [Calls -> Local]
    BY <1>2, MovesSettle DEF Placed, Moves
<1>4. ASSUME call'[c].session # None
      PROVE  call'[c].session \in Session /\ WorksWith(c, call'[c].session)
  <2>1. CASE call'[c].session = c
    BY <1>1, <2>1 DEF WorksWith, Session
  <2>2. CASE call'[c].session = call[c].session
    BY <1>4, <2>2, SessionFacts
  <2>3. QED
    BY <1>2, <2>1, <2>2
<1>5. ASSUME NEW b \in Calls, call'[b].session # None
      PROVE  /\ Placed(b)
             /\ call'[b].session \in Session
             /\ WorksWith(b, call'[b].session)
  <2>1. CASE b = c
    BY <1>1, <1>4, <1>5, <2>1
  <2>2. CASE b # c
    <3>1. call'[b].session = call[b].session
      BY <1>2, <2>2 DEF Moves, Stays
    <3>2. QED
      BY <1>5, <3>1, SessionFacts
  <2>3. QED
    BY <2>1, <2>2
<1>6. ASSUME NEW s \in Session
      PROVE  context'[s] \subseteq {call[s].tree} /\ (~Placed(s) => context'[s] = {})
  <2>1. context[s] \subseteq {call[s].tree} /\ (~Placed(s) => context[s] = {})
    BY DEF ContextInv, SessionInv
  <2>2. CASE context'[s] = context[s]
    BY <2>1, <2>2
  <2>3. CASE s = call'[c].session /\ context'[s] = context[s] \cup {call[c].tree}
    <3>1. WorksWith(c, s)
      BY <1>4, <2>3, DistinctAssumption DEF Session, Ids
    <3>2. QED
      BY <2>1, <2>3, <3>1 DEF WorksWith
  <2>4. QED
    BY <1>2, <2>2, <2>3 DEF ContextInv, CheckoutInv, TypeOK
<1>7. \A id \in Ids : sessions[id] \in Session \cup {None}
    BY DEF ContextInv, CheckoutInv, TypeOK
<1>8. QED
    BY <1>1, <1>3, <1>5, <1>6, <1>7, SessionKeeps DEF ContextInv, SessionInv

\* What is saved for a workspace is the session of a call that works there.
LEMMA SaveKeepsSessions ==
    ASSUME ContextInv, NEW c \in Calls, SaveSession(c)
    PROVE  SessionInv'
<1>1. Placed(c) /\ Goto(c, "finish") /\ context' = context
    BY DEF SaveSession, At, Placed
<1>2. /\ Moves(c) /\ call'[c].pc = "finish"
      /\ call'[c].tree = call[c].tree /\ call'[c].id = call[c].id
      /\ call'[c].session = call[c].session
    BY <1>1, GotoEffect DEF ContextInv, CheckoutInv
<1>3. Settled /\ call' \in [Calls -> Local]
    BY <1>2, MovesSettle DEF Placed, Moves
<1>4. \A b \in Calls : call'[b].session = call[b].session
    BY <1>2 DEF Moves, Stays
<1>5. ASSUME NEW id \in Ids, sessions'[id] # None
      PROVE  sessions'[id] \in Session /\ call[sessions'[id]].id = id
  <2>1. sessions[id] \in Session \cup {None}
    BY DEF ContextInv, CheckoutInv, TypeOK
  <2>2. CASE sessions'[id] = sessions[id]
    BY <1>5, <2>1, <2>2 DEF ContextInv, SessionInv
  <2>3. CASE /\ call[c].id = id /\ call[c].session # None
             /\ sessions'[id] = call[c].session
    BY <2>3, SessionFacts DEF WorksWith
  <2>4. sessions'[id] = sessions[id] \/ (/\ call[c].id = id /\ call[c].session # None
                                         /\ sessions'[id] = call[c].session)
    BY DEF SaveSession, SessionPath, ContextInv, CheckoutInv, TypeOK
  <2>5. QED
    BY <2>2, <2>3, <2>4
<1>6. QED
    BY <1>1, <1>3, <1>4, <1>5, SessionFacts, SessionKeeps DEF ContextInv, SessionInv

\* Every step keeps the sessions in their worktrees, if names are not shared.
LEMMA ContextStep ==
    ASSUME OneNamePerWorkspace, ContextInv, CheckoutInv', [Next]_vars
    PROVE  ContextInv'
<1>1. ASSUME NEW c \in Calls, Progress(c)
      PROVE  SessionInv'
  <2>1. CASE After(c)
    <3>1. Placed(c) /\ call[c].tree \in Trees /\ UNCHANGED <<sessions, context>>
      BY <2>1, PlacedTree DEF After, At, Placed, Locally, ContextInv
    <3>2. QED
      BY <2>1, <3>1, AfterEffect, MovesKeepSessions DEF Placed, ContextInv, CheckoutInv
  <2>2. CASE Check(c)
    BY <2>2, CheckEffect, MovesKeepSessions
        DEF Placed, ContextInv, CheckoutInv, Check, Locally
  <2>3. CASE Refuse(c) \/ VerifyRaises(c) \/ Finish(c)
    BY <2>3, GotoKeepsSessions DEF Refuse, VerifyRaises, Finish, Locally
  <2>4. QED
    BY <1>1, <2>1, <2>2, <2>3, PlacingKeepsSessions, LoadKeepsSessions,
       RunnerEndsKeepsSessions, SaveKeepsSessions
       DEF Progress
<1>2. ASSUME NEW c \in Calls, NEW path \in Paths,
             RunnerWrites(c, path) \/ VerifyWrites(c, path)
      PROVE  SessionInv'
    BY <1>2, TouchKeepsSessions DEF RunnerWrites, VerifyWrites
<1>3. ASSUME NEW c \in Calls, RunnerCommits(c)
      PROVE  SessionInv'
    BY <1>3, TouchKeepsSessions DEF RunnerCommits
<1>4. ASSUME NEW d \in Worktrees, RemoveWorktree(d)
      PROVE  SessionInv'
    BY <1>4, TouchKeepsSessions DEF RemoveWorktree
<1>5. SessionInv'
  <2>1. CASE Next
    BY <1>1, <1>2, <1>3, <1>4, <2>1, PlacingKeepsSessions DEF Next
  <2>2. CASE UNCHANGED vars
    BY <2>2 DEF vars, ContextInv, SessionInv, WorksWith, Placed
  <2>3. QED
    BY <2>1, <2>2
<1>6. QED
    BY <1>5 DEF ContextInv

\* At first there are no sessions.
LEMMA ContextInit == Init => ContextInv
    BY CheckoutInit DEF ContextInv, Init, Fresh, SessionInv, Session

\* If no two projects use one workspace name, a runner session works in one tree
\* only, whatever calls run at once and whatever is removed and made again
\* (sessions.py:45, task_service.py:153-154, 201-207).
THEOREM ContextStays ==
    ASSUME OneNamePerWorkspace
    PROVE  Spec => []ContextStaysInWorktree
<1>1. ContextInv /\ CheckoutInv' /\ [Next]_vars => ContextInv'
    BY ContextStep
<1>2. ContextInv => ContextStaysInWorktree
  <2> SUFFICES ASSUME ContextInv, NEW s \in Session
               PROVE  Cardinality(context[s]) <= 1
    BY DEF ContextStaysInWorktree
  <2>1. context[s] = {} \/ context[s] = {call[s].tree}
    BY DEF ContextInv, SessionInv
  <2>2. Cardinality({}) = 0 /\ Cardinality({call[s].tree}) = 1
    BY FS_EmptySet, FS_Singleton
  <2>3. QED
    BY <2>1, <2>2
<1>3. QED
    BY <1>1, <1>2, ContextInit, CheckoutAlways, PTL DEF Spec
=============================================================================
