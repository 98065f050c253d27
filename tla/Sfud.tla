-------------------------------- MODULE Sfud --------------------------------
(***************************************************************************)
(* The serial flash driver: sfud_erase, sfud_chip_erase and sfud_write on  *)
(* a chip with several erase commands (SFDP), one step per command on the  *)
(* bus.  The driver holds the SPI lock over a whole operation, so there is *)
(* one at a time; env_save, the recovery thread and the block device call  *)
(* it in any order.                                                        *)
(*                                                                         *)
(* The chip (external) has cells that are erased or programmed.  A page    *)
(* program stays inside its page and wraps around at its end; an erase     *)
(* command erases the whole block its address lies in.  Both need the      *)
(* write enable latch, which the chip clears when it has finished; while   *)
(* it works it ignores all commands but the one that reads its status.     *)
(* A transfer on the bus may fail, and wait_busy may give up while the     *)
(* chip is still busy.                                                     *)
(***************************************************************************)
EXTENDS Integers, FiniteSets, FiniteSetsExt

CONSTANTS
    Capacity,   \* cells of the chip
    Page,       \* write_gran: 256 in the code
    Erasers,    \* the block sizes of flash->sfdp.eraser[]
    Faults      \* bound: failing transfers and timeouts

VARIABLES
    programmed, \* chip: the cells that are not erased
    wel,        \* chip: the write enable latch
    busy,       \* chip: it works on a command
    op,         \* the operation: kind, step, rest to do, result
    before,     \* programmed when the operation began
    faults

vars == <<programmed, wel, busy, op, before, faults>>

Cells == 0 .. Capacity - 1
Smallest == Min(Erasers)
Span(addr, size) == addr .. addr + size - 1

\* The cells in the blocks of n cells that the range touches.
Hull(addr, size, n) == {c \in Cells : \E a \in Span(addr, size) : a \div n = c \div n}

None == [kind |-> "none", pc |-> "idle", addr |-> 0, size |-> 0,
         start |-> 0, length |-> 0, ok |-> TRUE, late |-> FALSE]

Init ==
    /\ programmed \in {{}, Cells}
    /\ wel = FALSE
    /\ busy = FALSE
    /\ op = None
    /\ before = programmed
    /\ faults = 0

\* sfud_write, sfud_erase up to the first command: the bound, the whole chip
\* and the empty range are seen to first.
Begin(kind, addr, size) ==
    /\ op.pc = "idle"
    /\ op' = [kind |-> IF kind = "erase" /\ addr = 0 /\ size = Capacity
                       THEN "chip" ELSE kind,
              pc |-> IF size = 0 THEN "disable" ELSE "enable",
              addr |-> addr, size |-> size,
              start |-> addr, length |-> size, ok |-> TRUE, late |-> busy]
    /\ before' = programmed
    /\ UNCHANGED <<programmed, wel, busy, faults>>

Fail == op' = [op EXCEPT !.pc = "disable", !.ok = FALSE]

\* set_write_enabled(flash, sfud_true): the latch is read back.  A busy chip
\* ignores the command.
EnableDone ==
    /\ op.pc = "enable"
    /\ wel' = (wel \/ ~busy)
    /\ IF wel' THEN op' = [op EXCEPT !.pc = "command"] ELSE Fail
    /\ UNCHANGED <<programmed, busy, before, faults>>

\* Mutant: the size of the range alone chooses the eraser.
EraserUnaligned(addr, size) == Max({e \in Erasers : size >= e} \cup {Smallest})

\* sfud_sfdp_get_suitable_eraser.
Eraser(addr, size) ==
    Max({e \in Erasers : size >= e /\ addr % e = 0 /\ addr % Smallest = 0}
            \cup {Smallest})

\* Mutant: the first part of a write is a whole page.
PartOfPage(addr, size) == Min({size, Page})

\* The part of a write that stays in its page.
Part(addr, size) == Min({size, Page - (addr % Page)})

\* What the chip does with a page program of n cells.
Program(addr, n) ==
    {(addr \div Page) * Page + ((addr + i) % Page) : i \in 0 .. n - 1}

\* The command is sent; how far the operation advances is known at once.
CommandDone ==
    /\ op.pc = "command"
    /\ LET accepts == wel /\ ~busy
           e == Eraser(op.addr, op.size)
           n == CASE op.kind = "write" -> Part(op.addr, op.size)
                  [] op.kind = "erase" -> e - (op.addr % e)
                  [] OTHER -> op.size
       IN  /\ programmed' =
                CASE ~accepts -> programmed
                  [] accepts /\ op.kind = "write" -> programmed \cup Program(op.addr, n)
                  [] accepts /\ op.kind = "erase" -> programmed \ Hull(op.addr, 1, e)
                  [] accepts /\ op.kind = "chip" -> {}
           /\ op' = [op EXCEPT !.pc = "busy", !.addr = @ + n,
                               !.size = IF @ > n THEN @ - n ELSE 0]
    /\ busy' = (busy \/ wel)
    /\ UNCHANGED <<wel, before, faults>>

\* The chip finishes.
ChipReady ==
    /\ busy
    /\ busy' = FALSE
    /\ wel' = FALSE
    /\ UNCHANGED <<programmed, op, before, faults>>

\* wait_busy returns; the loop goes on while something is left.
WaitDone ==
    /\ op.pc = "busy"
    /\ ~busy
    /\ op' = [op EXCEPT !.pc = IF op.size > 0 THEN "enable" ELSE "disable"]
    /\ UNCHANGED <<programmed, wel, busy, before, faults>>

\* A transfer fails, or wait_busy runs out of retries: the operation goes to
\* its exit with an error.
BusFails ==
    /\ op.pc \in {"enable", "command", "busy"}
    /\ faults < Faults
    /\ faults' = faults + 1
    /\ Fail
    /\ UNCHANGED <<programmed, wel, busy, before>>

\* The exit: set_write_enabled(flash, sfud_false), whose result is dropped,
\* and the unlock.  A busy chip ignores the command.
Disable ==
    /\ op.pc = "disable"
    /\ wel' = (wel /\ busy)
    /\ op' = [op EXCEPT !.pc = "done"]
    /\ UNCHANGED <<programmed, busy, before, faults>>

Return ==
    /\ op.pc = "done"
    /\ op' = None
    /\ before' = programmed
    /\ UNCHANGED <<programmed, wel, busy, faults>>

Next ==
    \/ \E kind \in {"erase", "write"}, addr \in Cells :
           \E size \in 0 .. Capacity - addr : Begin(kind, addr, size)
    \/ EnableDone \/ CommandDone \/ ChipReady \/ WaitDone \/ BusFails
    \/ Disable \/ Return

Spec == Init /\ [][Next]_vars

-----------------------------------------------------------------------------
\* The ranges of the variables.
TypeOK ==
    /\ programmed \subseteq Cells
    /\ wel \in BOOLEAN /\ busy \in BOOLEAN
    /\ op.pc \in {"idle", "enable", "command", "busy", "disable", "done"}

\* An operation changes no cell outside its range; an erase may also erase
\* the rest of the smallest blocks at the two ends ("It will erase align by
\* erase granularity", sfud_erase).  This holds at every step and after
\* every failure.
RangeKept ==
    \A c \in Cells : (c \in programmed) # (c \in before) =>
        /\ op.kind # "none"
        /\ c \in IF op.kind = "write" THEN Span(op.start, op.length)
                                      ELSE Hull(op.start, op.length, Smallest)

\* An operation that reports success has done all of it: every cell of its
\* range is programmed, or erased, and the chip no longer works on it.  The
\* exception is an operation that begins while the chip still works on one
\* that wait_busy gave up on: the latch reads as set, the chip ignores the
\* command and the driver takes the end of the old one for its own.
SuccessMeansDone ==
    op.pc = "done" /\ op.ok /\ ~op.late =>
        /\ \A c \in Span(op.start, op.length) :
               (c \in programmed) = (op.kind = "write")
        /\ ~busy /\ ~wel
=============================================================================
