---------------------------- MODULE WalkerTests ----------------------------
(***************************************************************************)
(* The tests of WalkerTests.cpp.  operator[] of a walker moves its cursor, *)
(* so a loop over the elements that a later assertion on tell() depends on *)
(* is the Seek of its last round.                                          *)
(***************************************************************************)
EXTENDS VectorTests

Single(kinds, steps) == Test("Walker", kinds, [walker |-> Doubling], steps)
Pair(kinds, steps) == Test("Walker", kinds, [walker1 |-> Doubling, walker2 |-> Doubling], steps)
Holder(n, steps) == Test("Walker", {"bytes"}, [walker |-> Storage(n)], steps)

WalkerFilled == FilledAs("walker")
GoneAt(tell) == Gone @@ [tell |-> tell]
At(size, tell) == [size |-> size, tell |-> tell]
Shows(expected) == On("walker", Look, expected)
Walks(call, expected) == Fine("walker", call, expected)
Stops(call, status, expected) == Fails("walker", call, status, expected)

WalkerConstructor == Single({"bytes"}, <<Shows(GoneAt(0))>>)

WalkerFCopyConstructor == Pair(Kinds, FilledAs("walker1") \o
  <<Fine("walker1", Seek(1), [tell |-> 1]),
    Fine("walker2", InitFrom("walker1"), [size |-> 3, tell |-> 1, elements |-> Data])>>)

WalkerFMoveConstructor == Pair(Kinds, FilledAs("walker1") \o
  <<Fine("walker1", Seek(1), [tell |-> 1]),
    Fine("walker2", MoveFrom("walker1"), [size |-> 3, tell |-> 1, elements |-> Data]),
    On("walker1", Look, Gone)>>)

WalkerFAssignmentCopyOperator == WalkerFCopyConstructor
WalkerFAssignmentMoveOperator == WalkerFMoveConstructor

WalkerDestructor == Single({"movable"}, WalkerFilled \o
  <<Shows([size |-> 3, data |-> "block", tell |-> 3]), Walks(Drop("destructor"), Gone)>>)

WalkerFInit == Pair(Kinds, FilledAs("walker1") \o
  <<Fine("walker2", InitFrom("walker1"), [size |-> 3, tell |-> 3, elements |-> Data]),
    Fine("walker1", Drop("invalidate"), Gone),
    Fine("walker2", InitFrom("walker1"), At(0, 0))>>)

WalkerInitNoMemory == Test("Walker", {"bytes"}, [walker1 |-> Storage(1), walker2 |-> Storage(0)],
  <<Fine("walker1", Push("123"), [size |-> 1]),
    Fails("walker2", InitFrom("walker1"), "ErrorNoMemory", <<>>)>>)

WalkerInitErrorPropagation == Pair({"copied"},
  <<Fine("walker1", Push("123"), [size |-> 1]),
    Fails("walker2", FailingAt(InitFrom("walker1"), 1), "ErrorElement", <<>>)>>)

WalkerFInitMove == Pair(Kinds, FilledAs("walker1") \o
  <<Fine("walker2", MoveFrom("walker1"), [size |-> 3, tell |-> 3, elements |-> Data]),
    On("walker1", Look, Gone),
    Fine("walker2", MoveFrom("walker1"), At(0, 0))>>)

WalkerInitMovePod == Test("Walker", {"bytes"}, [walker1 |-> Storage(1), walker2 |-> Storage(0)],
  <<Fine("walker1", Push("123"), [size |-> 1]), Fine("walker2", MoveFrom("walker1"), [size |-> 1])>>)

WalkerSetSize == Holder(32,
  <<Shows([tell |-> 0]), Walks(Size(32), At(32, 32)), Stops(Size(33), "ErrorNoMemory", At(32, 32))>>)

WalkerReserve == Test("Walker", {"bytes"}, [walker |-> Strict],
  LET kept == [capacity |-> 100, size |-> 1, elements |-> <<"1">>]
  IN  <<Walks(Push("1"), [capacity |-> 1]), Walks(Reserve(100), kept),
        Stops(Reserve(SizeMax), "ErrorNoMemory", kept)>>)

ReserveFromCurrentOffset == Test("Walker", {"bytes"}, [walker |-> Strict],
  LET kept == [capacity |-> 101, size |-> 1, elements |-> <<"1">>]
  IN  <<Walks(Push("1"), [capacity |-> 1]), Walks(ReserveHere(100), kept),
        Walks(Seek(1), [tell |-> 1]), Stops(ReserveHere(SizeMax), "ErrorOverflow", kept)>>)

WalkerPushBack == Single({"movable", "copied"},
  <<Walks(Push("123"), [elements |-> <<"123">>]), Walks(Seek(0), [tell |-> 0]),
    Walks(Push("123"), [elements |-> <<"123", "123">>]), Walks(Seek(1), [tell |-> 1])>>)

WalkerPushBackPod == Single({"bytes"},
  <<Walks(Push("123"), [elements |-> <<"123">>, tell |-> 1]),
    Walks(Push("456"), [elements |-> <<"123", "456">>, tell |-> 2])>>)

WalkerPushBackPodNoMemory == Holder(1,
  <<Walks(Push("456"), [size |-> 1]), Walks(Seek(0), [tell |-> 0]),
    Stops(Push("456"), "ErrorNoMemory", At(1, 1)), Stops(Push("456"), "ErrorNoMemory", At(1, 1))>>)

WalkerFPushBackN == Single(Kinds, WalkerFilled \o
  <<Shows([size |-> 3, elements |-> Data]),
    Walks(PushN(Data, 3), [size |-> 6, tell |-> 6, elements |-> Data \o Data]),
    Walks(PushN(Abc, 3), [size |-> 9, elements |-> Data \o Data \o Abc]),
    Stops(PushN(NullArray, 3), "ErrorInvalidArgument", [size |-> 9]),
    Stops(PushN(Data, SizeMax), "ErrorOverflow", [size |-> 9])>>)

WalkerPushBackNPod == Holder(1,
  <<Walks(Push("456"), <<>>), Walks(Seek(0), <<>>),
    Stops(PushN(<<"456">>, 1), "ErrorNoMemory", At(1, 1))>>)

WalkerPushBackArithmeticValue == Single({"bytes"},
  <<Walks(PushN(Double, 8), [elements |-> Double, size |-> 8, capacity |-> 16, tell |-> 8])>>)

WalkerPushBackArithmeticValueNoMemory == Holder(1,
  <<Walks(Push("0"), <<>>), Walks(Seek(0), <<>>),
    Stops(PushN(Double, 8), "ErrorNoMemory", At(1, 1))>>)

WalkerFReplace == Single(Kinds, WalkerFilled \o
  <<Stops(Put(Data, 3, 4), "ErrorOverflow", At(3, 3)),
    Stops(Put(NullArray, 3, 4), "ErrorInvalidArgument", At(3, 3)),
    Walks(Put(NullArray, 0, 3), At(3, 3)),
    Stops(Put(NullArray, 3, 4), "ErrorInvalidArgument", [size |-> 3]),
    Walks(Put(Abc, 1, 1), At(3, 2)),
    Walks(PushN(Abc, 3), <<>>),
    Walks(Put(Tail(Abc), 2, 5), At(7, 7) @@ [ends |-> Tail(Abc)]),
    Walks(Put(Tail(Abc), 2, 7), At(9, 9))>>)

WalkerReplacePod == Holder(1,
  <<Walks(Push("456"), <<>>), Stops(Put(<<"456", "456">>, 2, 0), "ErrorNoMemory", [tell |-> 0])>>)

WalkerFInsert == Single(Kinds, WalkerFilled \o
  <<Stops(Ins(Data, 3, 5), "ErrorOverflow", At(3, 3)),
    Walks(Ins(Abc, 3, 0), At(6, 3) @@ [elements |-> FirstInsert]),
    Walks(Ins(Hash, 3, 2), At(9, 5) @@ [elements |-> SecondInsert]),
    Walks(Ins(Plus3, 3, 8), At(12, 11) @@ [elements |-> ThirdInsert]),
    Walks(Ins(Plus3, 0, 10), At(12, 10)),
    Walks(Ins(NullArray, 0, 10), At(12, 10)),
    Stops(Ins(Plus3, 3, 13), "ErrorOverflow", At(12, 12)),
    Stops(Ins(NullArray, 3, 10), "ErrorInvalidArgument", At(12, 10))>>)

WalkerInsertPod == Holder(0, <<Stops(Ins(<<"1">>, 1, 0), "ErrorNoMemory", At(0, 0))>>)

WalkerFInsertIt == Single(Kinds, WalkerFilled \o
  <<Stops(InsRange(Data, 5), "ErrorOverflow", At(3, 3)),
    Walks(InsRange(Abc, 0), At(6, 3) @@ [out |-> 3, elements |-> FirstInsert]),
    Walks(InsRange(Hash, 2), At(9, 5) @@ [out |-> 5, elements |-> SecondInsert]),
    Walks(InsRange(Plus3, 8), At(12, 11) @@ [out |-> 11, elements |-> ThirdInsert]),
    Walks(InsRange(Plus3, 12), [size |-> 15, out |-> 15, ends |-> Plus3]),
    Walks(InsRange(<<>>, 0), <<>>),
    Stops(InsRange(Plus3, -1), "ErrorOverflow", At(15, 15) @@ [out |-> Untouched]),
    Stops(InsRange(Plus3, 16), "ErrorOverflow", At(15, 15) @@ [out |-> Untouched])>>)

WalkerInsertItPod == Holder(1,
  <<Walks(Push("0"), <<>>), Stops(InsRange(<<"0">>, 0), "ErrorNoMemory", At(1, 0))>>)

WalkerFErase == Single(Kinds, WalkerFilled \o
  <<Walks(PushN(Abc, 3), [size |-> 6]),
    Stops(Cut(6, 1), "ErrorOverflow", At(6, 6)),
    Walks(Cut(1, 0), At(6, 1)), Walks(Cut(1, 0), At(6, 1)),
    Walks(Cut(4, 1), At(5, 4) @@ [elements |-> Data \o <<"abc", "ghi">>]),
    Walks(Cut(1, 2), At(3, 1) @@ [elements |-> <<"123", "abc", "ghi">>]),
    Walks(Cut(2, 3), At(2, 2) @@ [elements |-> <<"123", "abc">>]),
    Walks(Cut(1, 10), At(1, 1) @@ [elements |-> <<"123">>]),
    Walks(Cut(0, SizeMax), At(0, 0))>>)

WalkerFEraseIt == Single(Kinds, WalkerFilled \o
  <<Walks(PushN(Abc, 3), [size |-> 6]),
    Stops(CutRange(-1, 1), "ErrorInvalidArgument", At(6, 6)),
    Stops(CutRange(0, -1), "ErrorOverflow", At(6, 0)),
    Stops(CutRange(1, 0), "ErrorOverflow", At(6, 1)),
    Stops(CutRange(6, 6), "ErrorInvalidArgument", At(6, 6)),
    Walks(CutRange(1, 1), At(6, 1)),
    Walks(CutRange(4, 5), At(5, 4) @@ [elements |-> Data \o <<"abc", "ghi">>]),
    Walks(CutRange(1, 3), At(3, 1) @@ [elements |-> <<"123", "abc", "ghi">>]),
    Walks(CutRange(2, 3), At(2, 2) @@ [elements |-> <<"123", "abc">>]),
    Walks(CutRange(1, 12), At(1, 1) @@ [elements |-> <<"123">>])>>)

FWrite == Single(Kinds, WalkerFilled \o
  <<Stops(Write(NullArray, 3), "ErrorInvalidArgument", [size |-> 3]),
    Walks(Write(Abc, 1), At(4, 4)),
    Walks(Write(Abc, 3), At(7, 7) @@ [ends |-> Abc])>>)

WritePod == Holder(0, <<Stops(Write(<<"456", "456">>, 2), "ErrorNoMemory", [tell |-> 0])>>)

FRead == Single(Kinds, WalkerFilled \o
  LET ReadAt(at, n) == <<Walks(Seek(at), <<>>), Walks(Read(n, <<>>),
                           IF at = 1 THEN [out |-> 2, tell |-> 3, dest |-> <<"456", "789", "789">>]
                           ELSE [out |-> 3, tell |-> 3, dest |-> Data])>>
  IN  ReadAt(0, 3) \o ReadAt(1, 3) \o ReadAt(0, 10) \o
      <<Walks(Seek(1), <<>>),
        Walks(Read(0, <<>>), [out |-> 0, tell |-> 1, dest |-> Data]),
        Walks(Seek(2), <<>>), Walks(Read(0, NullArray), [out |-> 0, tell |-> 2]),
        Walks(Seek(3), <<>>),
        Stops(Read(1, <<>>), "ErrorOverflow", [out |-> Untouched, tell |-> 3, dest |-> Data]),
        Walks(Seek(1), <<>>),
        Stops(Read(3, NullArray), "ErrorInvalidArgument", [out |-> Untouched, tell |-> 1])>>
      \o ReadAt(0, 3))

ReadArithmeticValue == Single({"bytes"},
  <<Walks(Push("0"), <<>>), Walks(Push("1"), <<>>), Walks(Seek(0), <<>>),
    Walks(ReadBytes(2), [tell |-> 2, dest |-> <<"0", "1">>]),
    Stops(ReadBytes(2), "ErrorOverflow", [tell |-> 2, out |-> Untouched])>>)

WalkerDataSizeTell == Single({"movable"},
  <<Shows([data |-> "nullptr", size |-> 0, capacity |-> 0, tell |-> 0]),
    Walks(PushN(Data, 3), [elements |-> Data, size |-> 3, tell |-> 3])>>)

WalkerCapacity == Test("Walker", {"movable"}, [walker |-> Doubling],
  <<Shows([capacity |-> 0]), Walks(Strategy(Strict), <<>>), Walks(PushN(Data, 3), [capacity |-> 3])>>)

WalkerClear == Single({"movable"}, WalkerFilled \o
  <<Walks(Drop("clear"), At(0, 0) @@ [data |-> "block", capacity |-> 6])>>)

WalkerInvalidate == Single({"movable"}, WalkerFilled \o <<Walks(Drop("invalidate"), GoneAt(0))>>)
WalkerRelease == Single({"movable"}, WalkerFilled \o <<Walks(Drop("release"), GoneAt(0))>>)

SeekTest == Single({"movable"},
  <<Walks(PushN(Data, 3), <<>>), Walks(Seek(1), [tell |-> 1]),
    Stops(Seek(5), "ErrorOverflow", [tell |-> 3])>>)

WalkerSuite ==
  <<WalkerConstructor, WalkerFCopyConstructor, WalkerFMoveConstructor,
    WalkerFAssignmentCopyOperator, WalkerFAssignmentMoveOperator, WalkerDestructor,
    WalkerFInit, WalkerInitNoMemory, WalkerInitErrorPropagation, WalkerFInitMove,
    WalkerInitMovePod, WalkerSetSize, WalkerReserve, ReserveFromCurrentOffset, WalkerPushBack,
    WalkerPushBackPod, WalkerPushBackPodNoMemory, WalkerFPushBackN, WalkerPushBackNPod,
    WalkerPushBackArithmeticValue, WalkerPushBackArithmeticValueNoMemory, WalkerFReplace,
    WalkerReplacePod, WalkerFInsert, WalkerInsertPod, WalkerFInsertIt, WalkerInsertItPod,
    WalkerFErase, WalkerFEraseIt, FWrite, WritePod, FRead, ReadArithmeticValue,
    WalkerDataSizeTell, WalkerCapacity, WalkerClear, WalkerInvalidate, WalkerRelease, SeekTest>>
=============================================================================
