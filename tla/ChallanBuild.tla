---------------------------- MODULE ChallanBuild ----------------------------
(***************************************************************************)
(* The reverse delivery challan: packages/automation-reversedc downloads   *)
(* the credit note of a bulk return, or takes an uploaded one, reads its   *)
(* table off the page and rebuilds it as a challan; when what it read does *)
(* not add up to the totals the note prints, it edits the note itself.     *)
(*                                                                         *)
(* A printed row has a quantity, an amount whose last digits may wrap onto *)
(* the line below (amt and cents, in paise), and a name of some lines, of  *)
(* which one may begin like a footer ("Total ..."). Coordinates are left   *)
(* out but for what they decide: which lines are read as a row's own, and  *)
(* which rows have room on a page of the challan. Every serial is read as  *)
(* one, and no cell as part of the row above.                              *)
(***************************************************************************)
EXTENDS Integers, FiniteSets, SequencesExt

CONSTANTS
    Notes,          \* credit notes: rows, the rows a page ends with, the total
    NoNote,         \* no PDF
    NoteCodes,      \* codes of credit notes
    Prints,         \* the print addresses tried for a bulk return
    FirstPageRows, NextPageRows,    \* rows put on a page of the challan
    FirstRoom, NextRoom,            \* points of height the page has for them
    MaxChallans     \* bound: challans asked for

ASSUME ChallanAssumption ==
    /\ \A n \in Notes :
        /\ n.rows \in Seq([qty : Nat \ {0}, amt : Nat, cents : Nat, footer : Nat, tall : Nat \ {0}])
        /\ \A i \in DOMAIN n.rows : n.rows[i].footer <= n.rows[i].tall
        /\ n.breaks \subseteq DOMAIN n.rows /\ n.labelled \in BOOLEAN
    /\ NoNote \notin Notes
    /\ Prints \in Nat /\ MaxChallans \in Nat
    /\ FirstPageRows \in Nat \ {0} /\ NextPageRows \in Nat \ {0}
    /\ FirstRoom \in Nat /\ NextRoom \in Nat

VARIABLES
    dc,             \* the running job
    challan,        \* the last result
    challans

dcVars == <<dc, challan, challans>>

DcIdle == [pc |-> "idle", tries |-> 0, codes |-> {}, note |-> NoNote, pdf |-> NoNote]
Refused == [ok |-> FALSE, mode |-> "none", lines |-> {}, of |-> NoNote]

DcInit == dc = DcIdle /\ challan = Refused /\ challans = 0

-----------------------------------------------------------------------------
Total(numbers) == FoldLeft(LAMBDA t, n : t + n, 0, numbers)
Qtys(rs) == [i \in DOMAIN rs |-> rs[i].qty]
Amount(r) == r.amt + r.cents
extractTotals(rs) == [qty |-> Total(Qtys(rs)), amt |-> Total([i \in DOMAIN rs |-> Amount(rs[i])])]

(* extractLineItems. A page is read up to the first text that begins like  *)
(* a footer: a row with that text on a line of its name keeps the lines    *)
(* above, and the rows below it on the page are lost.                      *)
PageOf(n, i) == Cardinality({b \in n.breaks : b < i})
CutBy(n, i) == {k \in DOMAIN n.rows : PageOf(n, k) = PageOf(n, i) /\ n.rows[k].footer # 0 /\ k <= i}
ReadRow(n, i) ==
    LET r == n.rows[i]
        kept == i \notin CutBy(n, i) \/ r.footer > 2
    IN  [sr |-> i, qty |-> r.qty, amt |-> IF kept THEN Amount(r) ELSE r.amt,
         tall |-> IF i \in CutBy(n, i) /\ r.footer > 1 THEN r.footer - 1 ELSE r.tall]
extractLineItems(n) ==
    LET read == {i \in DOMAIN n.rows : CutBy(n, i) = {} \/ (CutBy(n, i) = {i} /\ n.rows[i].footer > 1)}
    IN  [k \in 1 .. Cardinality(read) |->
            ReadRow(n, CHOOSE i \in read : Cardinality({j \in read : j <= i}) = k)]

(* reconcileParsed: serials without a gap, and the sums of the note's own  *)
(* totals, if those were found on the page.                                *)
InRun(lines) == \A i \in DOMAIN lines : lines[i].sr = i
Tolerance(total) == IF total > 100000 THEN total \div 1000 ELSE 100
reconcileParsed_SerialsOnly(lines, n) == lines # << >> /\ InRun(lines)
reconcileParsed(lines, n) ==
    /\ lines # << >> /\ InRun(lines)
    /\ n.labelled =>
        LET total == extractTotals(n.rows)
            sum == Total([i \in DOMAIN lines |-> lines[i].amt])
        IN  /\ Total(Qtys(lines)) = total.qty
            /\ total.amt - sum \in -Tolerance(total.amt) .. Tolerance(total.amt)

(* drawProductRows: a row takes 14 points and 9 more for every further line*)
(* of its name and for its HSN code. The pages are cut by counting rows;   *)
(* the drawing of a page stops at the first row that has no room on it.    *)
DcPage(i) == IF i <= FirstPageRows THEN 0 ELSE 1 + (i - FirstPageRows - 1) \div NextPageRows
Room(i) == IF i <= FirstPageRows THEN FirstRoom ELSE NextRoom
RowHeight(r) == 14 + 9 * (r.tall - 1)
Height(rs, i) == Total([k \in 1 .. i |-> IF DcPage(k) = DcPage(i) THEN RowHeight(rs[k]) ELSE 0])
Fits(rs, i) == Height(rs, i) <= Room(i)
Drawn(lines) == {lines[i] : i \in {j \in DOMAIN lines : Fits(lines, j)}}

-----------------------------------------------------------------------------
StartChallan(n, uploaded) ==
    /\ dc.pc = "idle" /\ challans < MaxChallans
    /\ uploaded => n # NoNote
    /\ challans' = challans + 1
    /\ dc' = [DcIdle EXCEPT !.pc = IF uploaded THEN "parse" ELSE "print", !.note = n,
                            !.pdf = IF uploaded THEN n ELSE NoNote]
    /\ UNCHANGED challan

(* tryBinary: a refused request, a dead session and an empty PDF are alike.*)
PrintReturn ==
    /\ dc.pc = "print"
    /\ \/ dc' = [dc EXCEPT !.pc = "summary", !.pdf = dc.note]
       \/ dc' = [dc EXCEPT !.pc = IF dc.tries + 1 = Prints THEN "summary" ELSE "print", !.tries = @ + 1]
    /\ UNCHANGED <<challan, challans>>

Summary ==
    /\ dc.pc = "summary"
    /\ \E codes \in SUBSET NoteCodes :
        dc' = [dc EXCEPT !.pc = IF dc.pdf # NoNote THEN "parse" ELSE "invoice", !.codes = codes]
    /\ UNCHANGED <<challan, challans>>

PrintInvoice ==
    /\ dc.pc = "invoice"
    /\ IF dc.codes = {}
       THEN dc' = DcIdle /\ challan' = Refused
       ELSE \E c \in dc.codes :
                /\ \/ dc' = [dc EXCEPT !.codes = @ \ {c}]
                   \/ dc.note # NoNote /\ dc' = [dc EXCEPT !.pc = "parse", !.pdf = dc.note]
                /\ UNCHANGED challan
    /\ UNCHANGED challans

(* buildFromParsed; drawing a challan, or over the note, may fail.         *)
Build ==
    /\ dc.pc = "parse" /\ dc' = DcIdle
    /\ LET lines == extractLineItems(dc.pdf)
       IN  \/ challan' = Refused
           \/ /\ reconcileParsed(lines, dc.pdf)
              /\ challan' = [ok |-> TRUE, mode |-> "rebuild", lines |-> Drawn(lines), of |-> dc.pdf]
           \/ /\ ~reconcileParsed(lines, dc.pdf)
              /\ challan' = [ok |-> TRUE, mode |-> "edit", lines |-> {}, of |-> dc.pdf]
    /\ UNCHANGED challans

DcStep == PrintReturn \/ Summary \/ PrintInvoice \/ Build

DcStart == \E n \in Notes \cup {NoNote}, uploaded \in BOOLEAN : StartChallan(n, uploaded)

DcNext == DcStart \/ DcStep

DcSpec == DcInit /\ [][DcNext]_dcVars

-----------------------------------------------------------------------------
(* "the rebuilt DC is only used when the parsed line items reconcile       *)
(* against the CN's own printed totals" (pipeline.js:10-12): of a note     *)
(* whose total was found, a rebuilt challan has the note's rows with their *)
(* quantities, and their amounts but for the tolerance, wherever a page    *)
(* breaks and whatever the goods are called. It has all that have room on  *)
(* the page they are counted to: the others are lost (renderDc.js:160),    *)
(* with no word in the result, below a total that counts them.             *)
RebuildIsFaithful ==
    challan.mode = "rebuild" /\ challan.of.labelled =>
        LET rows == challan.of.rows
        IN  /\ \A l \in challan.lines :
                /\ l.sr \in DOMAIN rows /\ l.qty = rows[l.sr].qty
                /\ Amount(rows[l.sr]) - l.amt \in 0 .. Tolerance(extractTotals(rows).amt)
            /\ \A i \in DOMAIN rows : Fits(rows, i) => \E l \in challan.lines : l.sr = i
=============================================================================
