---------------------------- MODULE VectorTests ----------------------------
(***************************************************************************)
(* The tests of VectorTests.cpp, as steps of TestScripts: each template    *)
(* function as a definition, for the kinds of elements it is instantiated  *)
(* for ("movable" is std::string, "copied" NoMoveConstructible or          *)
(* ErrorProne, "bytes" PodStruct, int or uint8_t).  An error of ErrorProne *)
(* is whatever Status the test has set, here ErrorElement.                 *)
(***************************************************************************)
EXTENDS TestScripts

Data == <<"123", "456", "789">>
Abc == <<"abc", "def", "ghi">>
Hash == <<"###", "$$$", "%%%">>
Plus3 == <<"+++", "---", "***">>
Double == <<"d1", "d2", "d3", "d4", "d5", "d6", "d7", "d8">>

Test(class, kinds, managers, steps) ==
  [class |-> class, kinds |-> kinds, managers |-> managers, steps |-> steps]

One(kinds, steps) == Test("Vector", kinds, [vec |-> Doubling], steps)
Two(kinds, steps) == Test("Vector", kinds, [vec1 |-> Doubling, vec2 |-> Doubling], steps)
Kept(n, steps) == Test("Vector", {"bytes"}, [vec |-> Storage(n)], steps)

(* getStringsFilledContainer                                               *)
FilledAs(name) == <<Fine(name, PushN(Data, 3), [capacity |-> 6])>>
Filled == FilledAs("vec")

Gone == [size |-> 0, capacity |-> 0, data |-> "nullptr"]
See(expected) == On("vec", Look, expected)
Does(call, expected) == Fine("vec", call, expected)
Refuses(call, status, size) == Fails("vec", call, status, [size |-> size, out |-> Untouched])

Constructor == One({"bytes"}, <<See(Gone)>>)

FCopyConstructor == Two(Kinds, FilledAs("vec1") \o
  <<Fine("vec2", InitFrom("vec1"), [size |-> 3, elements |-> Data])>>)

FMoveConstructor == Two(Kinds, FilledAs("vec1") \o
  <<Fine("vec2", MoveFrom("vec1"), [size |-> 3, elements |-> Data]), On("vec1", Look, Gone)>>)

(* auto vec2 = vec1 is the copy constructor again, and so with a move.     *)
FAssignmentCopyOperator == FCopyConstructor
FAssignmentMoveOperator == FMoveConstructor

Destructor == One({"movable"}, Filled \o
  <<See([size |-> 3, data |-> "block"]), Does(Drop("destructor"), Gone)>>)

FInit == Two(Kinds, FilledAs("vec1") \o
  <<Fine("vec2", InitFrom("vec1"), [size |-> 3, elements |-> Data]),
    Fine("vec1", Drop("invalidate"), Gone),
    Fine("vec2", InitFrom("vec1"), [size |-> 0])>>)

InitPod == Test("Vector", {"bytes"}, [vec1 |-> Storage(1), vec2 |-> Storage(0)],
  <<Fine("vec1", Push("123"), [size |-> 1]), Fails("vec2", InitFrom("vec1"), "ErrorNoMemory", Gone)>>)

InitErrorPropagation == Two({"copied"},
  <<Fine("vec1", Push("123"), [size |-> 1]),
    Fails("vec2", FailingAt(InitFrom("vec1"), 1), "ErrorElement", [size |-> 0])>>)

FInitMove == Two(Kinds, FilledAs("vec1") \o
  <<Fine("vec2", MoveFrom("vec1"), [size |-> 3, elements |-> Data]), On("vec1", Look, Gone),
    Fine("vec2", MoveFrom("vec1"), [size |-> 0])>>)

InitMovePod == Test("Vector", {"bytes"}, [vec1 |-> Storage(1), vec2 |-> Storage(0)],
  <<Fine("vec1", Push("123"), [size |-> 1]), Fine("vec2", MoveFrom("vec1"), [elements |-> <<"123">>])>>)

SetSize == Kept(32,
  <<Does(Size(32), [size |-> 32]), Fails("vec", Size(33), "ErrorNoMemory", [size |-> 32])>>)

ReserveTest == Test("Vector", {"bytes"}, [vec |-> Strict],
  LET kept == [capacity |-> 100, size |-> 1, elements |-> <<"123">>]
  IN  <<Does(Push("123"), [capacity |-> 1]), Does(Reserve(100), kept),
        Fails("vec", Reserve(SizeMax), "ErrorNoMemory", kept),
        Does(Strategy(Doubling), kept),
        Fails("vec", Reserve(SizeMax), "ErrorNoMemory", kept)>>)

ReserveErrorPropagation == One({"copied"},
  <<Does(Push("123"), [size |-> 1]),
    Fails("vec", FailingRelocation(Reserve(100)), "ErrorElement", <<>>)>>)

PushBack == One({"movable", "copied"},
  <<Does(Push("123"), [size |-> 1, elements |-> <<"123">>]),
    Does(Push("123"), [size |-> 2, elements |-> <<"123", "123">>])>>)

PushBackErrorPropagation == One({"copied"},
  <<Fails("vec", FailingAt(Push("123"), 1), "ErrorElement", <<>>),
    Fails("vec", FailingAt(Push("123"), 1), "ErrorElement", <<>>)>>)

PushBackPod == One({"bytes"},
  <<Does(Push("123"), [starts |-> <<"123">>]), Does(Push("456"), [starts |-> <<"123", "456">>])>>)

PushBackPodNoMemory == Kept(0,
  <<Refuses(Push("456"), "ErrorNoMemory", 0), Refuses(Push("456"), "ErrorNoMemory", 0)>>)

FPushBackN == One(Kinds, Filled \o
  <<See([size |-> 3, elements |-> Data]),
    Does(PushN(Data, 3), [size |-> 6, elements |-> Data \o Data]),
    Does(PushN(Abc, 3), [size |-> 9, elements |-> Data \o Data \o Abc]),
    Refuses(PushN(NullArray, 3), "ErrorInvalidArgument", 9),
    Does(PushN(NullArray, 0), [size |-> 9]),
    Refuses(PushN(Data, SizeMax), "ErrorOverflow", 9)>>)

PushBackNPod == Kept(0, <<Refuses(PushN(<<"456">>, 1), "ErrorNoMemory", 0)>>)

PushBackNErrorPropagation == One({"copied"},
  <<Fails("vec", FailingAt(PushN(<<"123", "456">>, 2), 2), "ErrorElement", <<>>)>>)

PushBackArithmeticValue == One({"bytes"},
  <<Does(PushN(Double, 8), [elements |-> Double, size |-> 8, capacity |-> 16])>>)

PushBackArithmeticValueNoMemory == Kept(0, <<Refuses(PushN(Double, 8), "ErrorNoMemory", 0)>>)

FReplace == One(Kinds, Filled \o
  <<Refuses(Put(Data, 3, 4), "ErrorOverflow", 3),
    Refuses(Put(NullArray, 3, 4), "ErrorInvalidArgument", 3),
    Does(Put(NullArray, 0, 3), [out |-> 3, size |-> 3]),
    Does(Put(Abc, 1, 1), [out |-> 2, size |-> 3]),
    Does(PushN(Abc, 3), [size |-> 6]),
    Does(Put(Tail(Abc), 2, 5), [out |-> 7, size |-> 7, ends |-> Tail(Abc)]),
    Does(Put(Tail(Abc), 2, 7), [out |-> 9, size |-> 9]),
    Does(Put(Abc, 0, 0), <<>>)>>)

ReplacePod == Kept(0, <<Refuses(Put(<<"456">>, 1, 0), "ErrorNoMemory", 0)>>)

ReplaceErrorPropagation == One({"copied"},
  <<Does(Push("123"), [size |-> 1]),
    Fails("vec", FailingAt(Put(<<"456", "789">>, 1, 0), 1), "ErrorElement", <<>>)>>)

(* What FInsert and FInsertIt expect after their insertions.               *)
FirstInsert == Abc \o Data
SecondInsert == <<"abc", "def">> \o Hash \o <<"ghi">> \o Data
ThirdInsert == <<"abc", "def">> \o Hash \o <<"ghi", "123", "456">> \o Plus3 \o <<"789">>

FInsert == One(Kinds, Filled \o
  <<Refuses(Ins(Data, 3, 5), "ErrorOverflow", 3),
    Does(Ins(Abc, 3, 0), [out |-> 3, size |-> 6, elements |-> FirstInsert]),
    Does(Ins(Hash, 3, 2), [out |-> 5, size |-> 9, elements |-> SecondInsert]),
    Does(Ins(Plus3, 3, 8), [out |-> 11, size |-> 12, elements |-> ThirdInsert]),
    Does(Ins(Plus3, 0, 0), <<>>),
    Does(Ins(Plus3, 0, 10), [out |-> 10, size |-> 12]),
    Does(Ins(NullArray, 0, 10), [out |-> 10, size |-> 12]),
    Refuses(Ins(Plus3, 3, 13), "ErrorOverflow", 12),
    Refuses(Ins(NullArray, 3, 10), "ErrorInvalidArgument", 12)>>)

InsertPod == Kept(0, <<Refuses(Ins(<<"1">>, 1, 0), "ErrorNoMemory", 0)>>)

InsertErrorPropagation == One({"copied"},
  <<Does(Push("123"), [size |-> 1]),
    Fails("vec", FailingMove(FailingAt(Ins(<<"456", "789">>, 1, 0), 1)), "ErrorElement", <<>>)>>)

FInsertIt == One(Kinds, Filled \o
  <<Refuses(InsRange(Data, 5), "ErrorOverflow", 3),
    Does(InsRange(Abc, 0), [out |-> 3, size |-> 6, elements |-> FirstInsert]),
    Does(InsRange(Hash, 2), [out |-> 5, size |-> 9, elements |-> SecondInsert]),
    Does(InsRange(Plus3, 8), [out |-> 11, size |-> 12, elements |-> ThirdInsert]),
    Does(InsRange(Plus3, 12), [out |-> 15, size |-> 15, ends |-> Plus3]),
    Does(InsRange(<<>>, 0), <<>>),
    Refuses(InsRange(Plus3, -1), "ErrorOverflow", 15),
    Refuses(InsRange(Plus3, 16), "ErrorOverflow", 15)>>)

InsertItPod == Kept(1,
  <<Does(Push("0"), [size |-> 1]), Refuses(InsRange(<<"0">>, 0), "ErrorNoMemory", 1)>>)

InsertItErrorPropagation == One({"copied"},
  <<Fails("vec", FailingAt(InsRange(<<"123">>, 0), 1), "ErrorElement", <<>>)>>)

(* What FErase and FEraseIt leave of Data and Abc.                         *)
FErase == One(Kinds, Filled \o
  <<Does(PushN(Abc, 3), [size |-> 6]),
    Refuses(Cut(6, 1), "ErrorOverflow", 6),
    Does(Cut(6, 0), [size |-> 6]), Does(Cut(1, 0), [size |-> 6]),
    Does(Cut(4, 1), [size |-> 5, elements |-> Data \o <<"abc", "ghi">>]),
    Does(Cut(1, 2), [size |-> 3, elements |-> <<"123", "abc", "ghi">>]),
    Does(Cut(2, 3), [size |-> 2, elements |-> <<"123", "abc">>]),
    Does(Cut(1, 10), [size |-> 1, elements |-> <<"123">>]),
    Does(Cut(0, SizeMax), [size |-> 0])>>)

EraseErrorPropagation == One({"copied"},
  <<Does(Push("123"), [size |-> 1]), Does(Push("456"), [size |-> 2]),
    Fails("vec", FailingMove(Cut(0, 1)), "ErrorElement", <<>>)>>)

FEraseIt == One(Kinds, Filled \o
  <<Does(PushN(Abc, 3), [size |-> 6]),
    Refuses(CutRange(-1, 1), "ErrorInvalidArgument", 6),
    Refuses(CutRange(0, -1), "ErrorOverflow", 6),
    Refuses(CutRange(1, 0), "ErrorOverflow", 6),
    Refuses(CutRange(6, 6), "ErrorInvalidArgument", 6),
    Does(CutRange(1, 1), [size |-> 6]),
    Does(CutRange(4, 5), [size |-> 5, elements |-> Data \o <<"abc", "ghi">>]),
    Does(CutRange(1, 3), [size |-> 3, elements |-> <<"123", "abc", "ghi">>]),
    Does(CutRange(2, 3), [size |-> 2, elements |-> <<"123", "abc">>]),
    Does(CutRange(1, 12), [size |-> 1, elements |-> <<"123">>])>>)

EraseItErrorPropagation == One({"copied"},
  <<Does(Push("123"), [size |-> 1]), Does(Push("456"), [size |-> 2]),
    Fails("vec", FailingMove(CutRange(0, 1)), "ErrorElement", <<>>)>>)

FCopyN == One(Kinds, Filled \o
  <<Does(Copy(0, 3, <<>>), [out |-> 3, dest |-> Data]),
    Does(Copy(1, 3, <<>>), [out |-> 2, dest |-> <<"456", "789", "789">>]),
    Does(Copy(0, 0, <<>>), <<>>),
    Does(Copy(0, 10, <<>>), [out |-> 3, dest |-> Data]),
    Does(Copy(1, 0, <<>>), [out |-> 0, dest |-> Data]),
    Does(Copy(1, 0, NullArray), [out |-> 0]),
    Fails("vec", Copy(3, 1, <<>>), "ErrorOverflow", [out |-> Untouched, dest |-> Data]),
    Refuses(Copy(4, 0, <<>>), "ErrorOverflow", 3),
    Does(Copy(3, 0, <<>>), [out |-> 0]),
    Refuses(Copy(1, 3, NullArray), "ErrorInvalidArgument", 3)>>)

CopyNErrorPropagation == One({"copied"},
  <<Does(Push("123"), [size |-> 1]), Fails("vec", FailingAt(Copy(0, 1, <<>>), 1), "ErrorElement", <<>>)>>)

FCopyNIt == One(Kinds, Filled \o
  <<Does(CopyRange(0, 3), [out |-> 3, dest |-> Data]),
    Does(CopyRange(1, 3), [out |-> 2, dest |-> <<"456", "789", "789">>]),
    Does(CopyRange(0, 0), <<>>),
    Does(CopyRange(0, 4), [out |-> 3, dest |-> Data]),
    Does(CopyRange(0, 0), [out |-> 0, dest |-> Data]),
    Fails("vec", CopyRange(1, 0), "ErrorOverflow", [out |-> Untouched, dest |-> Data]),
    Fails("vec", CopyRange(3, 3), "ErrorInvalidArgument", [out |-> Untouched, dest |-> Data])>>)

CopyNItErrorPropagation == One({"copied"},
  <<Does(Push("123"), [size |-> 1]), Fails("vec", FailingAt(CopyRange(0, 1), 1), "ErrorElement", <<>>)>>)

DataAndSize == One({"movable"},
  <<See([data |-> "nullptr", size |-> 0, capacity |-> 0]),
    Does(PushN(Data, 3), [elements |-> Data, size |-> 3])>>)

Capacity == Test("Vector", {"movable"}, [vec |-> Doubling],
  <<See([capacity |-> 0]), Does(Strategy(Strict), <<>>), Does(PushN(Data, 3), [capacity |-> 3])>>)

Clear == One({"movable"}, Filled \o
  <<Does(Drop("clear"), [data |-> "block", capacity |-> 6, size |-> 0])>>)

Invalidate == One({"movable"}, Filled \o <<Does(Drop("invalidate"), Gone)>>)
Release == One({"movable"}, Filled \o <<Does(Drop("release"), Gone)>>)

VectorSuite ==
  <<Constructor, FCopyConstructor, FMoveConstructor, FAssignmentCopyOperator,
    FAssignmentMoveOperator, Destructor, FInit, InitPod, InitErrorPropagation,
    FInitMove, InitMovePod, SetSize, ReserveTest, ReserveErrorPropagation,
    PushBack, PushBackErrorPropagation, PushBackPod, PushBackPodNoMemory, FPushBackN, PushBackNPod,
    PushBackNErrorPropagation, PushBackArithmeticValue, PushBackArithmeticValueNoMemory, FReplace,
    ReplacePod, ReplaceErrorPropagation, FInsert, InsertPod, InsertErrorPropagation, FInsertIt,
    InsertItPod, InsertItErrorPropagation, FErase, EraseErrorPropagation, FEraseIt,
    EraseItErrorPropagation, FCopyN, CopyNErrorPropagation, FCopyNIt, CopyNItErrorPropagation,
    DataAndSize, Capacity, Clear, Invalidate, Release>>
=============================================================================
