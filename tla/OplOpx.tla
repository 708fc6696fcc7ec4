------------------------------ MODULE OplOpx ------------------------------
(***************************************************************************)
(* Calls of the functions of the OPX libraries: what the translator        *)
(* compiles from the declaration (oplt/stran/OT_CALL.CPP, OPL16GEN.CPP)    *)
(* and what the runtime does with it (oplr/src/MODULE.CPP).                *)
(***************************************************************************)
EXTENDS OplOpxLibraries, OplKeywords

Opx(name, declared, handlers, runL) ==
  [name |-> name, declared |-> declared, handlers |-> handlers, runL |-> runL]

(* The table of a module that includes every header.                       *)
Opxs ==
  <<Opx("Agenda", AgendaDeclared, AgendaHandlers, AgendaRunL),
    Opx("System", SystemDeclared, SystemHandlers, SystemRunL),
    Opx("Contact", ContactDeclared, ContactHandlers, ContactRunL),
    Opx("AppFrame", AppFrameDeclared, AppFrameHandlers, AppFrameRunL),
    Opx("Printer", PrinterDeclared, PrinterHandlers, PrinterRunL),
    Opx("SendAs", SendAsDeclared, SendAsHandlers, SendAsRunL),
    Opx("Data", DataDeclared, DataHandlers, DataRunL),
    Opx("Alarm", AlarmDeclared, AlarmHandlers, AlarmRunL),
    Opx("DateTime", DateTimeDeclared, DateTimeHandlers, DateTimeRunL),
    Opx("Array", ArrayDeclared, ArrayHandlers, ArrayRunL),
    Opx("CellTrack", CellTrackDeclared, CellTrackHandlers, CellTrackRunL),
    Opx("Locale", LocaleDeclared, LocaleHandlers, LocaleRunL),
    Opx("SComms", SCommsDeclared, SCommsHandlers, SCommsRunL),
    Opx("Media", MediaDeclared, MediaHandlers, MediaRunL),
    Opx("Dbase", DbaseDeclared, DbaseHandlers, DbaseRunL),
    Opx("Bitmap", BitmapDeclared, BitmapHandlers, BitmapRunL),
    Opx("Spell", SpellDeclared, SpellHandlers, SpellRunL),
    Opx("Convert", ConvertDeclared, ConvertHandlers, ConvertRunL),
    Opx("Buffer", BufferDeclared, BufferHandlers, BufferRunL)>>

(* A call as a statement: a byte for the library, a word for the function. *)
OpxCall(opx, n) ==
  LET f == Opxs[opx].declared[n] IN
  Statement("opx", <<"list">> \o f.args,
            <<PCode("opx", f.t, f.t, "", <<<<8, opx>>, <<16, n>>>>), Drop(f.t)>>, <<>>)
OpxStatements ==
  UNION {{OpxCall(opx, n) : n \in DOMAIN Opxs[opx].declared} : opx \in DOMAIN Opxs}

(* CallOpxFunc.  RunL refuses a number it does not know, and the error is  *)
(* the program's.                                                          *)
OpxFound(opx, n) == n \in DOMAIN Opxs[opx].runL
OpxEffect(opx, n) ==
  LET f == Opxs[opx].handlers[Opxs[opx].runL[n]] IN
  Effect(<<8, 16>>, f.pops, f.gives)

(* The functions whose headers declare another type or other arguments     *)
(* than they take: ArrayGetSorted, ArrayFindL&, ProfileName$,              *)
(* CBSMessageInfo& and LcCurrencySetDecimalPlaces&.                        *)
DeclaredOtherwise ==
  {<<"Array", 11>>, <<"Array", 27>>, <<"CellTrack", 2>>, <<"CellTrack", 104>>, <<"Locale", 10>>}
IsDeclaredOtherwise(opx, n) == <<Opxs[opx].name, n>> \in DeclaredOtherwise
=============================================================================
