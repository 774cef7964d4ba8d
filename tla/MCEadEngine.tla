---------------------------- MODULE MCEadEngine -----------------------------
(* Results for TLC: families of workbooks, right and wrong in the columns  *)
(* that one rule or one step of the engines reads together.                *)
EXTENDS Results, TLC

\* Divisible by what an annuity of up to two months and a walk of three need, at
\* 50% and at 100%.
HalfRates == 2
Principal == 16934400

ASSUME PrincipalDivides ==
    /\ Principal % 24 ^ 3 = 0
    /\ \A n \in 1..2, e \in 1..HalfRates : Principal % (24 * ((24 + e) ^ n - 24 ^ n)) = 0

HalfYear == <<31, 28, 31, 30, 31, 30, 31>>
Cells == {"#5", "#7", "#8"}
Texts == ("Stage 1 " :> "Stage 1") @@ ("Retail " :> "Retail") @@ ("L1 " :> "L1") @@ (" " :> "")
         @@ ("#5" :> "5") @@ ("#7" :> "7") @@ ("#8" :> "8")
Property == [haircut |-> 20, delay |-> 1]

Sheets(absent, extra, rows) == [absent : absent, extra : extra, rows : rows]
PdRows(loan, segment, month, staging, amount) ==
    [loan : loan, segment : segment, month : month, staging : staging, amount : amount]
LgdRowsOf(loan, customer, owed, eir, pledged) ==
    [loan : loan, customer : customer, outstanding : owed, eir : eir, pledged : pledged]
EadRowsOf(loan, staging, segment, first, maturity, adjusted, owed, eir, freq) ==
    [loan : loan, customer : {"C1"}, staging : staging, segment : segment, reporting : {<<3, 31>>},
     first : first, maturity : maturity, adjusted : adjusted,
     outstanding : owed, eir : eir, freq : freq]

\* Two loans of one customer and segment without anything wrong.
PlainPd == Sheets({{}}, {{}}, PdRows({"L1"}, {"Retail"}, {<<1, 31>>}, {"Stage 1"}, {1})
                              \X PdRows({"L2"}, {"Retail"}, {<<1, 31>>}, {"Stage 1"}, {1}))
PlainLgd(eirs) == Sheets({{}}, {{"property"}}, LgdRowsOf({"L1"}, {"C1"}, {1}, eirs, {Principal})
                                          \X LgdRowsOf({"L2"}, {"C1"}, {1}, {0}, {0}))
Second == EadRowsOf({"L2"}, {"Stage 2"}, {"Retail"}, {<<2, 28>>}, {<<5, 31>>}, {<<5, 31>>},
                    {Principal}, {0}, {"MTH"})
PlainEad(absent) == Sheets(absent, {{}},
    EadRowsOf({"L1"}, {"Stage 1"}, {"Retail"}, {<<2, 28>>}, {<<5, 31>>}, {<<5, 31>>},
              {Principal}, {2}, {"MTH"}) \X Second)
Files(p, l, e) == [pd : p, lgd : l, ead : e, combine : {TRUE}]
OneFile(S) == {<<x>> : x \in S}

\* Every kind of loan next to another one of its segment.
LoanBooks ==
    Files(OneFile(PlainPd), PlainLgd({0, 1, 2}), Sheets({{}}, {{}},
        EadRowsOf({"L1"}, StagingValues, {"Retail"}, {<<1, 31>>, <<3, 30>>, <<4, 30>>},
                  {NoDate, BadDate, <<3, 30>>, <<3, 31>>, <<4, 29>>, <<4, 30>>, <<6, 30>>},
                  {<<1, 30>>, <<3, 31>>, <<4, 30>>, <<5, 30>>},
                  {-1, 0, Principal}, {0, 1, 2, 3}, {"MTH", "QTR", "YEARLY"}) \X Second))

\* Dates that are missing or wrong.
Dated(date) == {NoDate, BadDate, date}
DatedBooks ==
    Files(OneFile(PlainPd), PlainLgd({1}), Sheets({{}}, {{}},
        [loan : {"L1"}, customer : {"C1"}, staging : StagingValues, segment : {"Retail"},
         reporting : Dated(<<3, 31>>), first : Dated(<<2, 28>>), maturity : Dated(<<5, 31>>),
         adjusted : Dated(<<5, 31>>), outstanding : {Principal}, eir : {1}, freq : {"MTH", "QTR"}]
        \X Second))

\* Identifiers that are numbers, which the LGD file stores as their text.
IdBooks ==
    UNION {Files(OneFile(Sheets({{}}, {{}}, PdRows({"L1", "#7"}, {p}, {<<1, 31>>}, {"Stage 1"}, {1})
                                            \X PdRows({"L2", "#8"}, {p}, {<<1, 31>>}, {"Stage 1"}, {1}))),
                 Sheets({{}}, {{"property"}}, LgdRowsOf({"7", "#7"}, {"C1"}, {1}, {1}, {Principal})
                                              \X LgdRowsOf({"L2", "#8"}, {"C1"}, {1}, {0}, {0})),
                 Sheets({{}}, {{}},
                     EadRowsOf({"7", "#7"}, {"Stage 1"}, {e}, {<<2, 28>>}, {<<5, 31>>}, {<<5, 31>>},
                               {Principal}, {1}, {"MTH"})
                     \X EadRowsOf({"L2", "8", "#8"}, {"Stage 2"}, {e}, {<<2, 28>>}, {<<5, 31>>},
                                  {<<5, 31>>}, {Principal}, {0}, {"MTH"}))) :
           p \in {"5", "#5"}, e \in {"5", "#5"}}

\* A loan alone in its segment, two PD files, and texts as people write them.
TextBooks ==
    [pd : Sheets({{}}, {{}}, OneFile(PdRows({"L1"}, {"Retail", "SME"}, {<<1, 31>>}, {"Stage 1"}, {1})))
          \X Sheets({{}}, {{}}, OneFile(PdRows({"L1", "L2"}, {"Retail", "Retail ", Null}, {<<2, 28>>},
                                               {"Stage 1"}, {1}))),
     lgd : Sheets({{}}, {{"property"}}, OneFile(LgdRowsOf({"L1", "L1 "}, {"C1"}, {1}, {0, 2}, {0}))),
     ead : Sheets({{}}, {{}}, OneFile(
             EadRowsOf({"L1", "L2", " "}, {"Stage 1", "Stage 1 ", "Stage 3", "Watch", Null},
                       {"Retail", "Retail ", "SME", Null}, {<<2, 28>>, <<3, 1>>}, {NoDate, <<5, 31>>},
                       {<<5, 31>>}, {Principal}, {2}, {"MTH"}))),
     combine : BOOLEAN]

\* What two loans of one customer owe and pledge, and the columns that may lack.
CustomerBooks ==
    Files(OneFile([absent : {{}, {"month"}}, extra : {{}},
                   rows : PdRows({"L1"}, {"Retail"}, {<<1, 31>>}, {"Stage 1"}, {1})
                          \X PdRows({"L2"}, {"Retail"}, {<<1, 31>>}, {"Stage 1"}, {1})]),
          Sheets({{}, {"eir"}}, {{}, {"property"}},
                 LgdRowsOf({"L1"}, {"C1", "C2", " "}, {0, 1, NotANumber}, {2}, {0, Principal})
                 \X LgdRowsOf({"L1", "L2"}, {"C1"}, {0, 1, 3}, {0}, {0, Principal, -1})),
          PlainEad({{}, {"eir"}, {"staging"}}))

\* What a row of the PD file may hold.
PdBooks ==
    Files(OneFile(Sheets({{}}, {{}}, PdRows({"L1"}, {"Retail"}, {<<1, 31>>}, {"Stage 1"}, {1})
                   \X PdRows({"L1", "L2", Null}, {"Retail"}, {<<1, 31>>, <<2, 28>>, BadDate},
                             {"Stage 1", "Stage 1 ", "Watch", Null}, {-1, 0, NotANumber}))),
          PlainLgd({2}), PlainEad({{}}))

\* Two loans in one segment or in two, of a customer who may not be named.
ViewBooks ==
    Files(OneFile(Sheets({{}}, {{}}, PdRows({"L1"}, {"Retail"}, {<<1, 31>>}, {"Stage 1"}, {1})
                                     \X PdRows({"L2"}, {"SME"}, {<<1, 31>>}, {"Stage 1"}, {1}))),
          PlainLgd({0}), Sheets({{}}, {{}},
              [loan : {"L1", "L2"}, customer : {"C1", Null}, staging : StagingValues \cup {Null},
               segment : {"Retail", "SME"}, reporting : {<<3, 31>>}, first : {<<2, 28>>},
               maturity : {<<5, 31>>}, adjusted : {<<5, 31>>}, outstanding : {Principal \div 2, Principal},
               eir : {0}, freq : {"MTH"}]
              \X EadRowsOf({"L2"}, {"Stage 2", Null}, {"SME"}, {<<2, 28>>}, {<<5, 31>>}, {<<5, 31>>},
                           {Principal}, {0}, {"MTH"})))

ASSUME UnitAssumption == WholeInstalments

\* Losses below, between and above those of the loans.
SomeThresholds == {0, 1, Principal, 2 * Principal}

AllBooks == <<LoanBooks, DatedBooks, IdBooks, TextBooks, CustomerBooks, PdBooks, ViewBooks>>
=============================================================================
