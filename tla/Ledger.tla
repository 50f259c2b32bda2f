------------------------------- MODULE Ledger -------------------------------
(***************************************************************************)
(* The balances of client/block.c: apply_block, unapply_block,             *)
(* accept_amount, and the parts of set_main and unset_main that move       *)
(* amounts, composed with the choice of the main chain.                    *)
(*                                                                         *)
(* A block is an account.  What it transfers is fixed by its hash: which   *)
(* of its links are inputs (in_mask), the amount of each link, and the     *)
(* fee.  Amounts are unsigned words, of which there are Modulus.           *)
(***************************************************************************)
EXTENDS MainChain, Rewards, SequencesExt

CONSTANTS
  Amount,     \* amounts of links
  Fee,        \* fees
  Ours,       \* blocks with BI_OURS
  Modulus     \* 2^64

ASSUME AmountAssumption == Amount \cup Fee \subseteq 0..(Modulus - 1)
ASSUME OursAssumption == Ours \subseteq Block

VARIABLES
  transfer,   \* inputs, amounts and fee of each block seen
  ledger      \* amount, MAIN_REF, APPLIED and ref of blocks, and g_balance

ledgerVars == <<transfer, ledger>>
everything == <<allVars, ledgerVars>>

Transfer(links) ==
  [ins : SUBSET DOMAIN links, amt : [DOMAIN links -> Amount], fee : Fee]

SumOver(S, f) == FoldSet(LAMBDA i, sum : f[i] + sum, 0, S)

\* The last checks of add_block_nolock: no overflow (error A), inputs cover the
\* outputs and the fee, without inputs there are no outputs (error B).
Balanced(t) ==
  LET in == SumOver(t.ins, t.amt)
      out == SumOver(DOMAIN t.amt \ t.ins, t.amt) + t.fee
  IN  /\ in < Modulus /\ out < Modulus
      /\ IF t.ins # {} THEN in >= out ELSE out = t.fee

Payable(c) ==
  {t \in Transfer(c.links) :
     /\ Balanced(t)
     /\ c.plain => t.fee = 0 /\ \A i \in DOMAIN t.amt : t.amt[i] = 0}

-----------------------------------------------------------------------------
Word(n) == n % Modulus
Neg(n) == Word(Modulus - n)

\* accept_amount, with the balance of the blocks that are ours.
accept_amount(l, b, sum) ==
  [l EXCEPT !.amount[b] = Word(@ + sum),
            !.balance = IF b \in Ours THEN Word(@ + sum) ELSE @]

LinkOf(b, i) == content[b].links[i]
Places(b) == 1..Len(content[b].links)

\* The amounts of the links of b change hands, or go back.
MoveLinks(l, b, forth) ==
  LET move(acc, i) ==
        LET a == transfer[b].amt[i]
        IN  accept_amount(acc, LinkOf(b, i), IF (i \in transfer[b].ins) = forth THEN Neg(a) ELSE a)
  IN  FoldLeft(move, l, [i \in Places(b) |-> i])

SumIn(b) == SumOver(transfer[b].ins, transfer[b].amt)
SumOut(b) == SumOver(DOMAIN transfer[b].amt \ transfer[b].ins, transfer[b].amt) + transfer[b].fee

\* Mutant: the amounts of the inputs are not looked at.
CanPay_InputsUnchecked(l, b) ==
  /\ SumIn(b) + l.amount[b] < Modulus
  /\ SumIn(b) + l.amount[b] >= SumOut(b)

\* Whether apply_block finds that b can pay.
CanPay(l, b) ==
  /\ \A i \in transfer[b].ins : l.amount[LinkOf(b, i)] >= transfer[b].amt[i]
  /\ SumIn(b) + l.amount[b] < Modulus
  /\ SumIn(b) + l.amount[b] >= SumOut(b)

AlreadyApplied == Modulus - 1     \* the result -1

RECURSIVE apply_block(_, _)
apply_block(l, b) ==
  IF b \in l.mainref THEN [l |-> l, ret |-> AlreadyApplied]
  ELSE
    LET visit(acc, i) ==
          LET r == apply_block(acc, LinkOf(b, i))
              s == [r.l EXCEPT !.ref[LinkOf(b, i)] = b]
          IN  IF r.ret = AlreadyApplied THEN r.l
              ELSE IF s.amount[b] + r.ret < Modulus THEN accept_amount(s, b, r.ret) ELSE s
        l1 == FoldLeft(visit, [l EXCEPT !.mainref = @ \cup {b}], [i \in Places(b) |-> i])
        l2 == accept_amount(MoveLinks(l1, b, TRUE), b, Word(SumIn(b) + Neg(SumOut(b))))
    IN  IF CanPay(l1, b)
        THEN [l |-> [l2 EXCEPT !.applied = @ \cup {b}], ret |-> transfer[b].fee]
        ELSE [l |-> l1, ret |-> 0]

RECURSIVE unapply_block(_, _)
unapply_block(l, b) ==
  LET l1 == IF b \in l.applied
            THEN [accept_amount(MoveLinks(l, b, FALSE), b, Word(SumOut(b) + Neg(SumIn(b))))
                    EXCEPT !.applied = @ \ {b}]
            ELSE l
      l2 == [l1 EXCEPT !.mainref = @ \ {b}, !.ref[b] = NoBlock]
      visit(acc, i) ==
        LET x == LinkOf(b, i)
            r == unapply_block(acc, x)
        IN  IF acc.ref[x] = b /\ x \in acc.mainref THEN accept_amount(r.l, b, r.ret) ELSE acc
  IN  [l |-> FoldLeft(visit, l2, [i \in Places(b) |-> i]), ret |-> Neg(transfer[b].fee)]

set_main(l, m, h) ==
  LET r == apply_block(accept_amount(l, m, get_amount(h)), m)
  IN  [accept_amount(r.l, m, r.ret) EXCEPT !.ref[m] = m]

\* Mutants: the block loses what it earned, but not the balance of the wallet; its
\* transactions stay applied; it keeps the fees.
unset_main_KeepBalance(l, m, h) ==
  LET r == unapply_block([l EXCEPT !.amount[m] = Word(@ + Neg(get_amount(h)))], m)
  IN  accept_amount(r.l, m, r.ret)
unset_main_KeepApplied(l, m, h) == accept_amount(l, m, Neg(get_amount(h)))
unset_main_KeepFee(l, m, h) == unapply_block(accept_amount(l, m, Neg(get_amount(h))), m).l

unset_main(l, m, h) ==
  LET r == unapply_block(accept_amount(l, m, Neg(get_amount(h))), m)
  IN  accept_amount(r.l, m, r.ret)

-----------------------------------------------------------------------------
NoLedger ==
  [amount |-> [b \in Block |-> 0], mainref |-> {}, applied |-> {},
   ref |-> [b \in Block |-> NoBlock], balance |-> 0]

\* check_new_main, with set_main for the block that it confirms.
LedgerNow ==
  IF Confirmed = {} THEN ledger
  ELSE set_main(ledger, CHOOSE m \in Confirmed : TRUE, nmain + 1)

\* unwind_main along the walk w from the top down, each time with the number of main
\* blocks left.
UnwindLedger(l, w, gone) ==
  LET s == SelectSeq(w, LAMBDA x : x \in gone)
      unset(acc, i) == unset_main(acc, s[i], NmainNow - i + 1)
  IN  FoldLeft(unset, l, [i \in 1..Len(s) |-> i])

LedgerAdd(b, synced) ==
  ledger' = UnwindLedger(LedgerNow, WalkOfTop(walk'[b], Victims(synced)), MainNow \ main')

LedgerReceive(b, c, t, synced) ==
  /\ ChainReceive(b, c, synced)
  /\ b \in DOMAIN transfer => t = transfer[b]
  /\ transfer' = [x \in DOMAIN transfer \cup {b} |-> IF x = b THEN t ELSE transfer[x]]
  /\ LedgerAdd(b, synced)

LedgerLoad(i) ==
  /\ ChainLoad(i)
  /\ IF log[i] \in index' \ index THEN LedgerAdd(log[i], FALSE) ELSE UNCHANGED ledger
  /\ UNCHANGED transfer

LedgerCheckNewMain == CheckNewMain /\ ledger' = LedgerNow /\ UNCHANGED transfer

\* Mutant: the ledger survives.
LedgerForget_Nothing ==
  /\ ChainRestart \/ \E t \in Instants : ChainReset(t)
  /\ UNCHANGED ledgerVars

\* work_thread forgets every block and sets g_balance to 0.
LedgerForget ==
  /\ ChainRestart \/ \E t \in Instants : ChainReset(t)
  /\ ledger' = NoLedger
  /\ UNCHANGED transfer

\* The process stops inside a call: of the ledger, nothing is stored.
LedgerKilled(b, c, t, stored, synced) ==
  /\ ChainKilled(b, c, stored, synced)
  /\ b \in DOMAIN transfer => t = transfer[b]
  /\ transfer' = [x \in DOMAIN transfer \cup {b} |-> IF x = b THEN t ELSE transfer[x]]
  /\ ledger' = NoLedger

LedgerIdle == (ChainLoadDone \/ Tick) /\ UNCHANGED ledgerVars

LedgerInit ==
  /\ ChainInit
  /\ transfer = [b \in {} |-> {}]
  /\ ledger = NoLedger

LedgerNext ==
  \/ \E b \in Block \ index, c \in Content :
       /\ Acceptable(b, c)
       /\ \E t \in Payable(c), synced \in Synced :
            \/ LedgerReceive(b, c, t, synced)
            \/ \E stored \in BOOLEAN : LedgerKilled(b, c, t, stored, synced)
  \/ \E i \in todo : LedgerLoad(i)
  \/ LedgerCheckNewMain
  \/ LedgerForget
  \/ LedgerIdle

LedgerSpec == LedgerInit /\ [][LedgerNext]_everything

-----------------------------------------------------------------------------
(***************************************************************************)
(* Properties.                                                             *)
(***************************************************************************)
LedgerTypeOK ==
  /\ ChainTypeOK
  /\ DOMAIN transfer = DOMAIN content
  /\ \A b \in DOMAIN transfer : transfer[b] \in Payable(content[b])
  /\ ledger.amount \in [Block -> 0..(Modulus - 1)]
  /\ ledger.applied \subseteq ledger.mainref
  /\ ledger.mainref \subseteq index
  /\ ledger.ref \in [Block -> Pointer]
  /\ ledger.balance \in 0..(Modulus - 1)

AtHeight(h) == CHOOSE m \in main : height[m] = h

\* The ledger of a node that met the main blocks one after another and never
\* had to unwind one.
Replay ==
  LET step(acc, h) == set_main(acc, AtHeight(h), h)
  IN  FoldLeft(step, NoLedger, [h \in 1..nmain |-> h])

\* Every reorganisation leaves no trace: balances, applied transactions and the
\* ref pointers are those of a node that saw the present main blocks only.
ForksForgotten == ledger = Replay

\* Nothing is made or lost but the rewards of the main blocks: the amounts of all
\* blocks, as plain integers, add up to them, and so none has been taken below zero
\* and wrapped.  This holds as long as a block names an account in one input only
\* (apply_block compares every single input with the whole amount of the account)
\* and pays its fee (a rejected block returns 0 when it is applied, its fee when it
\* is undone).
Conserved ==
  SumOver(Block, ledger.amount) = SumOver(1..nmain, [h \in 1..nmain |-> get_amount(h)])

\* BI_MAIN_REF is on exactly the blocks that some main block reaches, although
\* unapply_block follows only the ref pointers that apply_block left.
MainRefExact == ledger.mainref = UNION {Reach(m) : m \in main}
=============================================================================
