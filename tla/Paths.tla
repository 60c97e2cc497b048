-------------------------------- MODULE Paths --------------------------------
(***************************************************************************)
(* The access paths of one object, as the compiled runtime keeps them        *)
(* (impl/cbrt/src/lib.rs): formed by a borrow in a statement, held by frames,  *)
(* cells and flights, handed from a function to its caller and from a thread  *)
(* to another, and ended once nothing holds them.                            *)
(*                                                                         *)
(* The object lives throughout and every path is to the whole of it, so two   *)
(* paths clash unless one descends from the other or both are shared; none is *)
(* lock-derived, and frames record the references they form.  The owner's     *)
(* root is the main thread's.  A runtime call is one step: the locks of       *)
(* RuntimeLock make it so.  What a thread does between its calls is the       *)
(* program: it passes a token along in a register, within the statement.      *)
(*                                                                         *)
(* A spawned thread's fault is contained: its stack is folded and it ends     *)
(* alone.  The faults that end the program are left out: the main thread's,   *)
(* a second one on a thread that unwinds, and one of a thread lent an         *)
(* exclusive reference.  A call that faults changes nothing here, and a       *)
(* destructor does no more to the paths than fault.                          *)
(***************************************************************************)
EXTENDS Integers, Sequences, FiniteSets, FiniteSetsExt

CONSTANTS
    N,         \* threads; 1 is the main thread
    MaxPaths,  \* bound: paths that anything names at once
    MaxDepth,  \* bound: frames and statements on each thread's stack
    MaxOcc,    \* bound: holders of a path
    MaxListed, \* bound: paths formed or received in a statement
    Assigns,   \* the threads whose body has a reference it assigns
    Sends      \* the threads that send on the channel; the others receive

Threads == 1..N

ASSUME BoundsAssumption ==
    /\ {N, MaxPaths, MaxOcc, MaxListed} \subseteq Nat \ {0}
    /\ MaxDepth \in [Threads -> Nat \ {0}]
    /\ Assigns \subseteq Threads /\ Sends \subseteq Threads

Main == 1
Transit == 0
Tokens == 1..MaxPaths
NoTok == 0
Root == MaxPaths + 1   \* stands for the owner's own binding
None == 0

\* Where a reference may be stored: a local of each thread's body, a spawned
\* thread's argument and result, and a channel of capacity one.
Local(t) == <<"local", t>>
Arg(t) == <<"arg", t>>
Res(t) == <<"res", t>>
Chan == <<"channel", 0>>
Cells == ({"local", "arg", "res"} \X Threads) \cup {Chan}

VARIABLES
    paths,   \* Rt.paths: a record for each path there is
    slots,   \* Rt.slots: the path each cell holds
    stack,   \* TState.stack: frames with what they hold, statements with what they list
    flight,  \* TState.inflight: what a call is returning
    reg,     \* the token the program has at hand
    at,
    lent,    \* Book.lent: the threads lent an exclusive reference
    \* Two histories, which no guard reads:
    lost,    \* the holds of each path that a fault made the runtime forget
    cut      \* the paths whose statement a fault cut short before its list

vars == <<paths, slots, stack, flight, reg, at, lent, lost, cut>>

Bag == [Tokens -> Nat]
NoToks == [p \in Tokens |-> 0]
Entry(kind) == [kind |-> kind, toks |-> NoToks]

Places == {"unborn", "run", "result", "return", "arrive", "store", "unwind", "forget", "ended", "joined"}

TypeOK ==
    /\ DOMAIN paths \subseteq Tokens
    /\ \A p \in DOMAIN paths :
          paths[p] \in [exclusive : BOOLEAN, ancestors : SUBSET Tokens, occ : Nat,
                        scope : Nat, thread : Threads \cup {Transit}]
    /\ slots \in [Cells -> Tokens \cup {NoTok}]
    /\ stack \in [Threads -> Seq([kind : {"frame", "scope"}, toks : Bag])]
    /\ flight \in [Threads -> Tokens \cup {NoTok}]
    /\ reg \in [Threads -> Tokens \cup {NoTok}]
    /\ at \in [Threads -> Places]
    /\ lent \in SUBSET Threads /\ lost \in Bag /\ cut \in SUBSET Tokens

Init ==
    /\ paths = <<>>
    /\ slots = [c \in Cells |-> NoTok]
    /\ stack = [t \in Threads |-> IF t = Main THEN <<Entry("frame")>> ELSE <<>>]
    /\ flight = [t \in Threads |-> NoTok]
    /\ reg = [t \in Threads |-> NoTok]
    /\ at = [t \in Threads |-> IF t = Main THEN "run" ELSE "unborn"]
    /\ lent = {} /\ lost = NoToks /\ cut = {}

-----------------------------------------------------------------------------
(* The table of paths.  Each operator gives the table after the call.        *)

retire_token(P, p) == [q \in DOMAIN P \ {p} |-> P[q]]

Held(P, p) == IF p \in DOMAIN P THEN [P EXCEPT ![p].occ = @ + 1] ELSE P

LetGo(P, p) == IF p \in DOMAIN P THEN [P EXCEPT ![p].occ = IF @ = 0 THEN 0 ELSE @ - 1] ELSE P

\* With a bug: the end of the last hold ends the path, whatever statement lists it.
drop_occ_always(P, p) ==
    IF p \notin DOMAIN P THEN P
    ELSE LET Q == LetGo(P, p)
         IN IF Q[p].occ = 0 THEN retire_token(Q, p) ELSE Q

\* A path ends with its last holder unless a statement lists it.
drop_occ(P, p) ==
    IF p \notin DOMAIN P THEN P
    ELSE LET Q == LetGo(P, p)
         IN IF Q[p].occ = 0 /\ Q[p].scope = None THEN retire_token(Q, p) ELSE Q

Scoped(P, p, i) == IF p \in DOMAIN P THEN [P EXCEPT ![p].scope = i] ELSE P

\* cb_store_ref, into a cell with `old`.
store_ref(P, old, p) == IF old = p THEN P ELSE Held(drop_occ(P, old), p)

-----------------------------------------------------------------------------
(* Stacks.                                                                   *)

Push(t, e) == stack' = [stack EXCEPT ![t] = Append(@, e)]
Popped(s) == SubSeq(s, 1, Len(s) - 1)
Positions(t, kind) == {i \in 1..Len(stack[t]) : stack[t][i].kind = kind}
Highest(is) == IF is = {} THEN None ELSE CHOOSE i \in is : \A j \in is : j <= i

top_frame(t) == Highest(Positions(t, "frame"))
top_scope(t) == Highest(Positions(t, "scope"))
scope_below(t, i) == Highest({j \in Positions(t, "scope") : j < i})
Top(t, kind) == stack[t] # <<>> /\ stack[t][Len(stack[t])].kind = kind

\* detach_tok: off the list of the statement its record names, on the calling
\* thread's stack.
detach_tok(S, t, p) ==
    LET i == IF p \in DOMAIN paths THEN paths[p].scope ELSE None
    IN IF i \in 1..Len(S[t]) /\ S[t][i].kind = "scope" /\ S[t][i].toks[p] > 0
       THEN [S EXCEPT ![t][i].toks[p] = @ - 1]
       ELSE S

\* stamp_tok: onto the list of the statement at `i`.
stamp_tok(S, t, p, i) == IF i = None \/ p \notin DOMAIN paths THEN S ELSE [S EXCEPT ![t][i].toks[p] = @ + 1]

-----------------------------------------------------------------------------
(* Checks and new paths.                                                     *)

Live == {t \in Threads : at[t] \notin {"unborn", "ended", "joined"}}

\* What the program can name: what it has at hand, and what its frames hold.
Known(t) ==
    {p \in DOMAIN paths : p = reg[t] \/ \E i \in Positions(t, "frame") : stack[t][i].toks[p] > 0}
Bases(t) == Known(t) \cup (IF t = Main THEN {Root} ELSE {})

Exclusives == {Root} \cup {p \in DOMAIN paths : paths[p].exclusive}
Ancestors(b) == IF b = Root THEN {} ELSE paths[b].ancestors

\* affine: an exclusive path is used by the thread it belongs to; one lent, or of
\* a thread that has ended, by whoever comes first.
affine(t) ==
    {Root} \cup {p \in DOMAIN paths :
        \/ ~paths[p].exclusive \/ Live = {t}
        \/ paths[p].thread \in {t, Transit} \cup (Threads \ Live)}
TakenOver(P, t, b) ==
    IF b = Root \/ ~paths[b].exclusive \/ Live = {t} THEN P ELSE [P EXCEPT ![b].thread = t]

\* affine_slow: a spawned thread that takes a path over is lent it.
LentBy(t, b) ==
    IF t # Main /\ b # Root /\ paths[b].exclusive /\ Live # {t} /\ paths[b].thread # t THEN {t} ELSE {}

\* cb_thread_lent: a channel of exclusive references is a mutex that may hold one, and
\* a spawned thread that locks it is lent one.
LentByChannel(t, p) == IF t # Main /\ paths[p].exclusive THEN {t} ELSE {}

\* check_access: nothing that is held clashes with the access.
check_access(t, b, ex) ==
    /\ b \in affine(t)
    /\ \A q \in DOMAIN paths \ (Ancestors(b) \cup {b}) :
          paths[q].occ > 0 => ~ex /\ ~paths[q].exclusive

\* A token's number is never given out twice.  A name that nothing keeps any
\* more is taken again here, which nobody can tell from a new one.
Named ==
    DOMAIN paths \cup (UNION {paths[p].ancestors : p \in DOMAIN paths})
        \cup {reg[t] : t \in Threads} \cup {flight[t] : t \in Threads} \cup {slots[c] : c \in Cells}
        \cup {p \in Tokens : \E t \in Threads : \E i \in 1..Len(stack[t]) : stack[t][i].toks[p] > 0}
        \cup {p \in Tokens : lost[p] # 0}
Unnamed == Tokens \ Named
NewToken == CHOOSE p \in Unnamed : \A q \in Unnamed : p <= q

\* The chain a path is formed through, closed over its members' own.
Chain(b) ==
    IF b = Root THEN {}
    ELSE {b} \cup paths[b].ancestors
             \cup UNION {paths[e].ancestors : e \in paths[b].ancestors \cap DOMAIN paths}

\* mint_in
Minted(P, p, b, ex, i, t) ==
    [q \in DOMAIN P \cup {p} |->
        IF q = p
        THEN [exclusive |-> ex, ancestors |-> Chain(b), occ |-> 0, scope |-> i, thread |-> t]
        ELSE P[q]]

-----------------------------------------------------------------------------
(* Statements, frames and what they hold.                                    *)

Runs(t) == at[t] = "run"
InStatement(t) == Runs(t) /\ Top(t, "scope")
Room(t, i) == MapThenSumSet(LAMBDA p : stack[t][i].toks[p], Tokens) < MaxListed

StmtPush(t) ==
    /\ Runs(t) /\ Len(stack[t]) < MaxDepth[t]
    /\ Push(t, Entry("scope"))
    /\ UNCHANGED <<paths, slots, flight, reg, at, lent, lost, cut>>

\* With a bug: what nothing holds is forgotten by the statement, not ended.
end_scope_keep(P, toks) ==
    [q \in DOMAIN P |-> IF toks[q] > 0 THEN [P[q] EXCEPT !.scope = None] ELSE P[q]]

\* end_scope: what nothing holds ends; what is held lives on with its holder.
end_scope(P, toks) ==
    [q \in {p \in DOMAIN P : toks[p] = 0 \/ P[p].occ > 0} |->
        IF toks[q] > 0 THEN [P[q] EXCEPT !.scope = None] ELSE P[q]]

ToksOnTop(t) == stack[t][Len(stack[t])].toks

StatementEnds(t) ==
    /\ Top(t, "scope")
    /\ paths' = end_scope(paths, ToksOnTop(t))
    /\ stack' = [stack EXCEPT ![t] = Popped(@)]
    /\ UNCHANGED slots

\* cb_stmt_pop.  A statement's result, stamped outward, stays at hand.
StmtPop(t) ==
    /\ at[t] \in {"run", "result", "return"} /\ StatementEnds(t)
    /\ reg' = [reg EXCEPT ![t] = IF at[t] = "result" THEN @ ELSE NoTok]
    /\ at' = [at EXCEPT ![t] = IF @ = "result" THEN "run" ELSE @]
    /\ UNCHANGED <<flight, lent, lost, cut>>

FramePush(t) ==
    /\ InStatement(t) /\ Room(t, top_scope(t)) /\ Len(stack[t]) < MaxDepth[t]
    /\ Push(t, Entry("frame"))
    /\ UNCHANGED <<paths, slots, flight, reg, at, lent, lost, cut>>

\* end_owned: as many holds let go of as the frame has.
DropHolds(P, toks) ==
    LET Q == [p \in DOMAIN P |-> [P[p] EXCEPT !.occ = IF @ < toks[p] THEN 0 ELSE @ - toks[p]]]
    IN [p \in {q \in DOMAIN P : toks[q] = 0 \/ Q[q].occ > 0 \/ Q[q].scope # None} |-> Q[p]]

\* The frame on top lets go of `toks`; its local ends too, if `local`.
FrameEnds(t, toks, local) ==
    /\ Top(t, "frame")
    /\ LET P == DropHolds(paths, toks)
       IN paths' = IF local THEN drop_occ(P, slots[Local(t)]) ELSE P
    /\ slots' = IF local THEN [slots EXCEPT ![Local(t)] = NoTok] ELSE slots
    /\ stack' = [stack EXCEPT ![t] = Popped(@)]

\* The thread's body, whose frame owns its local.
InBody(t) == Len(stack[t]) = 1

\* cb_frame_pop.  A thread's body ends with its local.
FramePop(t) ==
    /\ at[t] \in {"run", "return"} /\ (InBody(t) => t # Main)
    /\ FrameEnds(t, ToksOnTop(t), InBody(t))
    /\ at' = [at EXCEPT ![t] = IF @ = "return" THEN "arrive" ELSE IF InBody(t) THEN "forget" ELSE @]
    /\ UNCHANGED <<flight, reg, lent, lost, cut>>

\* cb_frame_hold: a binding with no object; the nearest frame holds its path.
FrameHold(t) ==
    /\ Runs(t)
    /\ LET p == reg[t]
       IN /\ p \in DOMAIN paths /\ paths[p].occ < MaxOcc /\ stack[t][top_frame(t)].toks[p] = 0
          /\ paths' = Held(paths, p)
          /\ stack' = [stack EXCEPT ![t][top_frame(t)].toks[p] = @ + 1]
    /\ reg' = [reg EXCEPT ![t] = NoTok]
    /\ UNCHANGED <<slots, flight, at, lent, lost, cut>>

\* cb_frame_unhold: the binding ends early; the nearest frame that holds its path
\* lets go of it.
FrameUnhold(t, p) ==
    /\ Runs(t)
    /\ LET i == Highest({j \in Positions(t, "frame") : stack[t][j].toks[p] > 0})
       IN /\ i # None
          /\ stack' = [stack EXCEPT ![t][i].toks[p] = @ - 1]
    /\ paths' = drop_occ(paths, p)
    /\ UNCHANGED <<slots, flight, reg, at, lent, lost, cut>>

-----------------------------------------------------------------------------
(* Borrows, accesses, cells.                                                 *)

\* cb_borrow: formed in the current statement.  Nothing exclusive is formed
\* through a shared reference.
Borrow(t, b, ex) ==
    /\ InStatement(t) /\ Unnamed # {} /\ Room(t, top_scope(t))
    /\ ex => b \in Exclusives
    /\ check_access(t, b, ex)
    /\ paths' = Minted(TakenOver(paths, t, b), NewToken, b, ex, top_scope(t), t)
    /\ stack' = [stack EXCEPT ![t][top_scope(t)].toks[NewToken] = 1]
    /\ reg' = [reg EXCEPT ![t] = NewToken]
    /\ lent' = lent \cup LentBy(t, b) /\ cut' = cut \ {NewToken}
    /\ UNCHANGED <<slots, flight, at, lost>>

\* cb_read, cb_write: an access in a path's own mode.
Access(t, b) ==
    /\ InStatement(t)
    /\ check_access(t, b, b \in Exclusives)
    /\ paths' = TakenOver(paths, t, b) /\ lent' = lent \cup LentBy(t, b)
    /\ UNCHANGED <<slots, stack, flight, reg, at, lost, cut>>

\* The thread's local is given the reference at hand, is read, or ends.
Store(t) ==
    /\ InStatement(t) /\ reg[t] \in DOMAIN paths /\ paths[reg[t]].occ < MaxOcc
    /\ t \in Assigns
    /\ paths' = store_ref(paths, slots[Local(t)], reg[t])
    /\ slots' = [slots EXCEPT ![Local(t)] = reg[t]]
    /\ reg' = [reg EXCEPT ![t] = NoTok]
    /\ UNCHANGED <<stack, flight, at, lent, lost, cut>>

Load(t) ==
    /\ InStatement(t) /\ slots[Local(t)] # NoTok
    /\ reg' = [reg EXCEPT ![t] = slots[Local(t)]]
    /\ UNCHANGED <<paths, slots, stack, flight, at, lent, lost, cut>>

\* forget_slots, as the local's object ends.
LocalEnds(t) ==
    /\ Runs(t) /\ slots[Local(t)] # NoTok
    /\ paths' = drop_occ(paths, slots[Local(t)])
    /\ slots' = [slots EXCEPT ![Local(t)] = NoTok]
    /\ UNCHANGED <<stack, flight, reg, at, lent, lost, cut>>

-----------------------------------------------------------------------------
(* References that leave a statement, a function, a thread.                  *)

\* cb_result_ref: a statement's result is stamped to the one around it.  The
\* program has it from this statement, or from a binding.
Result(t) ==
    /\ InStatement(t) /\ Cardinality(Positions(t, "scope")) > 1
    /\ Room(t, scope_below(t, top_scope(t)))
    /\ reg[t] \in DOMAIN paths
    /\ \A i \in Positions(t, "scope") \ {top_scope(t)} : stack[t][i].toks[reg[t]] = 0
    /\ LET p == reg[t]
           cur == paths[p].scope
           i == scope_below(t, IF cur = None THEN top_scope(t) ELSE cur)
       IN /\ stack' = stamp_tok(detach_tok(stack, t, p), t, p, i)
          /\ paths' = Scoped(paths, p, i)
    /\ at' = [at EXCEPT ![t] = "result"]
    /\ UNCHANGED <<slots, flight, reg, lent, lost, cut>>

\* cb_send_ref: a function returns the reference at hand; the flight holds it
\* while the function's statements and frame end.
SendRef(t) ==
    /\ InStatement(t) /\ (t = Main => top_frame(t) > 1)
    /\ reg[t] \in DOMAIN paths /\ paths[reg[t]].occ < MaxOcc
    /\ stack' = detach_tok(stack, t, reg[t])
    /\ paths' = Held(Scoped(paths, reg[t], None), reg[t])
    /\ flight' = [flight EXCEPT ![t] = reg[t]]
    /\ reg' = [reg EXCEPT ![t] = NoTok]
    /\ at' = [at EXCEPT ![t] = "return"]
    /\ UNCHANGED <<slots, lent, lost, cut>>

\* With a bug: the flight's hold is not given up.
RecvRefHolding(t) ==
    /\ at[t] = "arrive"
    /\ LET p == flight[t]
           i == top_scope(t)
       IN /\ stack' = stamp_tok(stack, t, p, i)
          /\ paths' = Scoped(paths, p, i)
          /\ reg' = [reg EXCEPT ![t] = p]
    /\ flight' = [flight EXCEPT ![t] = NoTok]
    /\ at' = [at EXCEPT ![t] = IF stack[t] = <<>> THEN "store" ELSE "run"]
    /\ UNCHANGED <<slots, lent, lost, cut>>

\* cb_recv_ref, cb_recv_datum_tok: into the caller's statement.  A thread whose
\* body has returned has none.
RecvRef(t) ==
    /\ at[t] = "arrive"
    /\ LET p == flight[t]
           i == top_scope(t)
       IN /\ stack' = stamp_tok(stack, t, p, i)
          /\ paths' = LetGo(Scoped(paths, p, i), p)
          /\ reg' = [reg EXCEPT ![t] = p]
    /\ flight' = [flight EXCEPT ![t] = NoTok]
    /\ at' = [at EXCEPT ![t] = IF stack[t] = <<>> THEN "store" ELSE "run"]
    /\ UNCHANGED <<slots, lent, lost, cut>>

\* With a bug: an exclusive reference is handed over as it is.
LendItself(t, c) ==
    /\ paths' = store_ref(paths, slots[c], reg[t])
    /\ slots' = [slots EXCEPT ![c] = reg[t]]
    /\ UNCHANGED cut

\* cb_lend: an exclusive reference handed to a cell another thread will read is
\* replaced there by a path borrowed from it, in transit and in no statement.
Lend(t, c) ==
    LET p == reg[t]
    IN IF ~paths[p].exclusive
       THEN /\ paths' = store_ref(paths, slots[c], p)
            /\ slots' = [slots EXCEPT ![c] = p]
            /\ UNCHANGED cut
       ELSE /\ Unnamed # {} /\ check_access(t, p, TRUE)
            /\ LET P == Minted(TakenOver(Held(paths, p), t, p), NewToken, p, TRUE, None, Transit)
               IN paths' = store_ref(P, p, NewToken)
            /\ slots' = [slots EXCEPT ![c] = NewToken]
            /\ cut' = cut \ {NewToken}

\* A spawn gives the thread the reference at hand; the thread starts with it, and
\* is lent it if it is exclusive (cb_thread_start).
Spawn(t, u) ==
    /\ InStatement(t) /\ at[u] = "unborn"
    /\ reg[t] \in DOMAIN paths /\ paths[reg[t]].occ < MaxOcc
    /\ Lend(t, Arg(u))
    /\ stack' = [stack EXCEPT ![u] = <<Entry("frame")>>]
    /\ reg' = [reg EXCEPT ![t] = NoTok, ![u] = slots'[Arg(u)]]
    /\ at' = [at EXCEPT ![u] = "run"]
    /\ lent' = lent \cup LentBy(t, reg[t]) \cup (IF paths'[slots'[Arg(u)]].exclusive THEN {u} ELSE {})
    /\ UNCHANGED <<flight, lost>>

\* Channel::send, of the reference at hand.
ChannelSend(t) ==
    /\ InStatement(t) /\ t \in Sends /\ slots[Chan] = NoTok
    /\ reg[t] \in DOMAIN paths /\ paths[reg[t]].occ < MaxOcc
    /\ Lend(t, Chan)
    /\ reg' = [reg EXCEPT ![t] = NoTok]
    /\ lent' = lent \cup LentByChannel(t, reg[t])
    /\ UNCHANGED <<stack, flight, at, lost>>

\* Channel::recv's return (cb_send_datum): the cell's hold becomes the flight's.
ChannelRecv(t) ==
    /\ InStatement(t) /\ t \notin Sends /\ slots[Chan] # NoTok /\ Room(t, top_scope(t))
    /\ LET p == slots[Chan]
       IN /\ stack' = detach_tok(stack, t, p)
          /\ paths' = Scoped(paths, p, None)
          /\ flight' = [flight EXCEPT ![t] = p]
    /\ slots' = [slots EXCEPT ![Chan] = NoTok]
    /\ reg' = [reg EXCEPT ![t] = NoTok]
    /\ at' = [at EXCEPT ![t] = "arrive"]
    /\ lent' = lent \cup LentByChannel(t, slots[Chan])
    /\ UNCHANGED <<lost, cut>>

\* A spawned thread's trampoline: the result is stored before the argument is
\* forgotten.
StoreResult(t) ==
    /\ at[t] = "store"
    /\ paths' = store_ref(paths, slots[Res(t)], reg[t])
    /\ slots' = [slots EXCEPT ![Res(t)] = reg[t]]
    /\ reg' = [reg EXCEPT ![t] = NoTok]
    /\ at' = [at EXCEPT ![t] = "forget"]
    /\ UNCHANGED <<stack, flight, lent, lost, cut>>

EnvForget(t) ==
    /\ at[t] = "forget"
    /\ paths' = drop_occ(paths, slots[Arg(t)])
    /\ slots' = [slots EXCEPT ![Arg(t)] = NoTok]
    /\ reg' = [reg EXCEPT ![t] = NoTok]
    /\ at' = [at EXCEPT ![t] = "ended"]
    /\ UNCHANGED <<stack, flight, lent, lost, cut>>

\* cb_join, and what follows it for a reference: loaded, sent and received on
\* this thread, and its transient cell forgotten.
Join(t, u) ==
    /\ InStatement(t) /\ at[u] = "ended" /\ Room(t, top_scope(t))
    /\ LET p == slots[Res(u)]
           i == top_scope(t)
       IN IF p = NoTok THEN UNCHANGED <<paths, slots, stack, reg>>
          ELSE /\ stack' = stamp_tok(detach_tok(stack, t, p), t, p, i)
               /\ paths' = drop_occ(Scoped(paths, p, i), p)
               /\ slots' = [slots EXCEPT ![Res(u)] = NoTok]
               /\ reg' = [reg EXCEPT ![t] = p]
    /\ at' = [at EXCEPT ![u] = "joined"]
    /\ UNCHANGED <<flight, lent, lost, cut>>

-----------------------------------------------------------------------------
(* Contained faults.                                                         *)

Contains(t) == t # Main /\ t \notin lent
Forget(toks) == lost' = [p \in Tokens |-> lost[p] + toks[p]]

\* The thread's unwind begins: what the program had at hand is gone.
Unwinds(t) ==
    /\ Contains(t)
    /\ at' = [at EXCEPT ![t] = "unwind"] /\ reg' = [reg EXCEPT ![t] = NoTok]
    /\ UNCHANGED <<flight, lent>>

\* fault_impl: in the program, or in a call.
Fault(t) ==
    /\ at[t] \in {"run", "return"} /\ Unwinds(t)
    /\ UNCHANGED <<paths, slots, stack, lost, cut>>

\* A temporary's destructor faults as its statement ends (end_temps): the statement
\* has left the stack, and the rest of end_scope, which ends what it lists, is
\* never run.
StmtPopFault(t) ==
    /\ at[t] \in {"run", "result", "return"} /\ Top(t, "scope") /\ Unwinds(t)
    /\ stack' = [stack EXCEPT ![t] = Popped(@)]
    /\ cut' = cut \cup {p \in Tokens : ToksOnTop(t)[p] > 0}
    /\ UNCHANGED <<paths, slots, lost>>

\* A destructor of what a frame owns faults (end_owned): the frame has left the
\* stack, and what it had not let go of by then, `kept` of its holds and with a
\* body the local, it never does.
FramePopFault(t, kept, local) ==
    /\ at[t] \in {"run", "return"} /\ (local => InBody(t)) /\ Unwinds(t)
    /\ \A p \in kept : ToksOnTop(t)[p] > 0
    /\ FrameEnds(t, [p \in Tokens |-> IF p \in kept THEN 0 ELSE ToksOnTop(t)[p]], local)
    /\ Forget([p \in Tokens |-> IF p \in kept THEN ToksOnTop(t)[p] ELSE 0])
    /\ UNCHANGED cut

\* contained_fault folds the stack, an entry at a time.
Unwind(t) ==
    /\ at[t] = "unwind"
    /\ StatementEnds(t) \/ FrameEnds(t, ToksOnTop(t), InBody(t))
    /\ UNCHANGED <<flight, reg, at, lent, lost, cut>>

\* ... and clears the flights: a hold that one has is never let go of.  The
\* trampoline forgets the argument, and there is no result.
Contained(t) ==
    /\ at[t] = "unwind" /\ stack[t] = <<>>
    /\ Forget([p \in Tokens |-> IF p = flight[t] THEN 1 ELSE 0])
    /\ flight' = [flight EXCEPT ![t] = NoTok]
    /\ at' = [at EXCEPT ![t] = "forget"]
    /\ UNCHANGED <<paths, slots, stack, reg, lent, cut>>

Next ==
    \E t \in Threads :
        \/ StmtPush(t) \/ StmtPop(t) \/ FramePush(t) \/ FramePop(t)
        \/ FrameHold(t) \/ Store(t) \/ Load(t) \/ LocalEnds(t)
        \/ \E p \in Tokens : FrameUnhold(t, p)
        \/ \E b \in Bases(t) : Access(t, b) \/ \E ex \in BOOLEAN : Borrow(t, b, ex)
        \/ Result(t) \/ SendRef(t) \/ RecvRef(t)
        \/ ChannelSend(t) \/ ChannelRecv(t) \/ StoreResult(t) \/ EnvForget(t)
        \/ \E u \in Threads : Spawn(t, u) \/ Join(t, u)
        \/ Fault(t) \/ StmtPopFault(t) \/ Unwind(t) \/ Contained(t)
        \/ \E kept \in SUBSET Tokens, local \in BOOLEAN : FramePopFault(t, kept, local)

Spec == Init /\ [][Next]_vars

-----------------------------------------------------------------------------

Frames == UNION {{t} \X Positions(t, "frame") : t \in Threads}

\* What the frames hold of a path: a hold for each time a frame has it.
FrameHolds(p) == UNION {{f} \X (1..stack[f[1]][f[2]].toks[p]) : f \in Frames}

\* The cells and flights that have a path, and what the frames hold of it.
Holders(p) ==
    Cardinality({c \in Cells : slots[c] = p}) + Cardinality({t \in Threads : flight[t] = p})
        + Cardinality(FrameHolds(p))

\* A path's count is of its holders, and of those that a contained fault dropped
\* without a word to the count: never too low, and too high by no more than these.
OccIsHolds == \A p \in DOMAIN paths : paths[p].occ = Holders(p) + lost[p]

\* The threads with an open statement that lists a path.
Listers(p) == {t \in Threads : \E i \in Positions(t, "scope") : stack[t][i].toks[p] > 0}

\* A path that nothing holds is a statement's, to end with it, or a result about to
\* be stored; only a contained fault leaves others: a hold of theirs was dropped
\* uncounted, or their statement was cut short.
EveryPathIsOwned ==
    \A p \in DOMAIN paths :
        \/ Holders(p) > 0 \/ Listers(p) # {}
        \/ \E t \in Threads : at[t] = "store" /\ reg[t] = p
        \/ lost[p] > 0 \/ p \in cut

\* "A held path lives on past its statement (`end_scope`) and ends with its last
\* holder (`drop_occ`)" (cb_frame_hold): what counts as held has a holder.
\* It fails where a contained fault forgets a hold.
HeldHaveHolders == \A p \in DOMAIN paths : paths[p].occ > 0 => Holders(p) > 0

\* "[Thread-Affine] keeps every exclusive path to one thread, and [Thread-Lend]
\* gives a thread a path of its own for each one it is handed" (spec/19).
Has(t, p) ==
    \/ p \in Known(t) \/ flight[t] = p
    \/ p \in {slots[Local(t)], slots[Arg(t)], slots[Res(t)]}
ExclusivesApart ==
    \A p \in DOMAIN paths : paths[p].exclusive => Cardinality({t \in Live : Has(t, p)}) <= 1

\* A thread has a path at hand that an open statement of its formed or received,
\* and takes no step of its own.
AtHand(t, p) == Runs(t) /\ reg[t] = p /\ t \in Listers(p)
Rests(t) == at'[t] = at[t] /\ reg'[t] = reg[t] /\ stack'[t] = stack[t] /\ slots'[Local(t)] = slots[Local(t)]

\* What a step ends, nothing holds after it, and no thread that rests has it at
\* hand, if no other thread's statement has listed it.
Ends ==
    \A p \in DOMAIN paths \ DOMAIN paths' :
        /\ Holders(p)' = 0
        /\ \A t \in Threads :
              AtHand(t, p) /\ Rests(t) => Listers(p) # {t} \/ paths[p].scope = None

\* A path ends only when nothing holds it, and not by another thread's step while
\* a thread has it at hand, if no other thread's statement has listed it.
EndsWhenLetGo == [][Ends]_vars

\* "The value moves into the receiver's statement ... so the sender's later
\* statement exits do not end it, whatever the schedule" (conformance
\* 19-concurrency/channel_lent_ref_received_ok.cb): without that exception.
ReceivedStays ==
    [][\A p \in DOMAIN paths \ DOMAIN paths', t \in Threads : ~(AtHand(t, p) /\ Rests(t))]_vars
=============================================================================
