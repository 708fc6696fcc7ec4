-------------------------- MODULE OplOpxLibraries --------------------------
(***************************************************************************)
(* The OPX libraries of opx/ as the translator and the runtime see them.   *)
(* A program includes the header of a library (.txh), which declares each  *)
(* function with its arguments, its type and its number; the library is a  *)
(* DLL whose RunL takes the number and calls a function that pops the      *)
(* arguments, last first, and pushes the value.  The two are written by    *)
(* hand and neither the translator nor the loader compares them.           *)
(*                                                                         *)
(* Of each library: what the header declares; what its functions pop and   *)
(* push, in tables named for the first function each stands for (they      *)
(* follow the order of the file); and which of them RunL calls for which   *)
(* number.  A function that RunL calls with a flag or with its number has  *)
(* an entry for each.  The macros are those of the project files.          *)
(***************************************************************************)
EXTENDS OplHandlers

(* A variable by reference is its address, a long, on the stack.           *)
At(t) == <<"@" \o t>>

Declared(numbers, args, t) == [n \in numbers |-> [args |-> args, t |-> t]]
Entries(functions, pops, gives) == [f \in functions |-> [pops |-> pops, gives |-> gives]]
From(first, functions) ==
  [n \in first .. first + Len(functions) - 1 |-> functions[n - first + 1]]

-----------------------------------------------------------------------------
(* Agenda: opx/AGENDA/agenda.txh and agenda.cpp.                           *)
AgendaDeclared ==
  Declared({1}, S, "r") @@ Declared({2}, None, "r") @@
  Declared({3, 6, 18, 35, 36, 38, 47, 50, 52, 56}, L, "l") @@
  Declared({4, 5, 25, 48, 49, 60}, L, "r") @@ Declared((7 .. 12) \cup {51}, None, "l") @@
  Declared({13, 14, 53}, L \o S, "r") @@ Declared({15}, Times(4, L) \o S, "r") @@
  Declared({16, 17, 44, 54}, L \o W, "r") @@ Declared({19, 23, 24, 46, 58}, L, "w") @@
  Declared({20, 21, 57}, L, "s") @@ Declared({22}, L \o Times(3, At("l")), "s") @@
  Declared({26, 27}, Times(6, L), "r") @@ Declared({28, 29}, L \o Times(5, At("l")), "r") @@
  Declared({30}, L \o L, "l") @@ Declared({31, 32, 34, 61}, L \o L, "r") @@
  Declared({33, 39, 40, 43}, Times(4, L), "r") @@
  Declared({37, 41, 42, 45}, L \o Times(3, At("l")), "r") @@
  Declared({55}, L \o W \o L \o L, "r") @@ Declared({59}, L \o Times(2, At("l")), "w")
AgendaOpenOn ==
  Entries({"OpenL"}, S, R) @@ Entries({"CloseL"}, None, R) @@
  Entries({"AddL", "FetchL"}, L, L) @@ Entries({"ModifyL", "DeleteL"}, L, R) @@
  Entries({"FirstEntryL"}, None, L)
AgendaNextEntryOn ==
  Entries({"NextEntryL", "EnNewApptL", "EnNewTodoL", "EnNewEventL", "EnNewAnnivL"}, None, L) @@
  Entries({"EnSetTextL"}, S \o L, R)
AgendaEnSetSymbolOn ==
  Entries({"EnSetSymbolL"}, S \o L, R) @@ Entries({"EnSetAlarmL"}, S \o Times(4, L), R) @@
  Entries({"EnSetCrossOutL", "EnSetTentativeL"}, W \o L, R)
AgendaEnGetIdOn ==
  Entries({"EnGetIdL"}, L, L) @@ Entries({"EnGetTypeL", "EnGetCrossOutL"}, L, W) @@
  Entries({"EnGetTextL", "EnGetSymbolL"}, L, S) @@
  Entries({"EnGetAlarmL"}, Times(3, At("l")) \o L, S)
AgendaEnGetTentativeOn == Entries({"EnGetTentativeL"}, L, W)
AgendaEnFreeOn ==
  Entries({"EnFreeL"}, L, R) @@ Entries({"ApSetStartTimeL", "ApSetEndTimeL"}, Times(6, L), R) @@
  Entries({"ApGetStartTimeL", "ApGetEndTimeL"}, Times(5, At("l")) \o L, R)
AgendaTdAtOn ==
  Entries({"TdAtL"}, L \o L, L) @@
  Entries({"TdSetListL", "TdSetPriorityL", "TdSetDurationL"}, L \o L, R) @@
  Entries({"TdSetDueDateL"}, Times(4, L), R) @@ Entries({"TdGetListL"}, L, L)
AgendaTdGetPriorityOn ==
  Entries({"TdGetPriorityL", "TdGetDurationL"}, L, L) @@
  Entries({"TdGetDueDateL"}, Times(3, At("l")) \o L, R)
AgendaEvSetStartDateOn ==
  Entries({"EvSetStartDateL", "EvSetEndDateL"}, Times(4, L), R) @@
  Entries({"EvGetStartDateL", "EvGetEndDateL"}, Times(3, At("l")) \o L, R)
AgendaAnSetDateOn ==
  Entries({"AnSetDateL"}, Times(4, L), R) @@ Entries({"AnSetShowL"}, W \o L, R) @@
  Entries({"AnGetDateL"}, Times(3, At("l")) \o L, R) @@ Entries({"AnGetShowL"}, L, W) @@
  Entries({"LiAddL"}, L, L)
AgendaLiChangePositionOn ==
  Entries({"LiChangePositionL"}, L \o L, R) @@ Entries({"LiModifyL", "LiDeleteL"}, L, R) @@
  Entries({"LiFetchL", "LiAtL"}, L, L) @@ Entries({"LiNewL"}, None, L) @@
  Entries({"LiSetTitleL"}, S \o L, R)
AgendaLiSetOrderOn ==
  Entries({"LiSetOrderL"}, W \o L, R) @@ Entries({"LiSetViewDisplayL"}, L \o L \o W \o L, R) @@
  Entries({"LiGetIdL"}, L, L) @@ Entries({"LiGetTitleL"}, L, S) @@
  Entries({"LiGetOrderL"}, L, W) @@ Entries({"LiGetViewDisplayL"}, Times(2, At("l")) \o L, W)
AgendaLiFreeOn == Entries({"LiFreeL"}, L, R)
AgendaHandlers ==
  AgendaOpenOn @@ AgendaNextEntryOn @@ AgendaEnSetSymbolOn @@ AgendaEnGetIdOn @@
  AgendaEnGetTentativeOn @@ AgendaEnFreeOn @@ AgendaTdAtOn @@ AgendaTdGetPriorityOn @@
  AgendaEvSetStartDateOn @@ AgendaAnSetDateOn @@ AgendaLiChangePositionOn @@
  AgendaLiSetOrderOn @@ AgendaLiFreeOn
AgendaRunL ==
  From(1, <<
    "OpenL", "CloseL", "AddL", "ModifyL", "DeleteL", "FetchL", "FirstEntryL",
    "NextEntryL", "EnNewApptL", "EnNewTodoL", "EnNewEventL", "EnNewAnnivL", "EnSetTextL",
    "EnSetSymbolL", "EnSetAlarmL", "EnSetCrossOutL", "EnSetTentativeL", "EnGetIdL",
    "EnGetTypeL", "EnGetTextL", "EnGetSymbolL", "EnGetAlarmL", "EnGetCrossOutL",
    "EnGetTentativeL", "EnFreeL", "ApSetStartTimeL", "ApSetEndTimeL", "ApGetStartTimeL",
    "ApGetEndTimeL", "TdAtL", "TdSetListL", "TdSetPriorityL", "TdSetDueDateL",
    "TdSetDurationL", "TdGetListL", "TdGetPriorityL", "TdGetDueDateL", "TdGetDurationL",
    "EvSetStartDateL", "EvSetEndDateL", "EvGetStartDateL", "EvGetEndDateL", "AnSetDateL",
    "AnSetShowL", "AnGetDateL", "AnGetShowL", "LiAddL", "LiModifyL", "LiDeleteL",
    "LiFetchL", "LiNewL", "LiAtL", "LiSetTitleL", "LiSetOrderL", "LiSetViewDisplayL",
    "LiGetIdL", "LiGetTitleL", "LiGetOrderL", "LiGetViewDisplayL", "LiFreeL",
    "LiChangePositionL">>)

(* System: opx/System/SYSTEM.TXH and SYSTEM.CPP.                           *)
SystemDeclared ==
  Declared({1, 34}, L \o At("l"), "l") @@
  Declared({2, 30, 31, 38, 39, 41, 73, 74}, L \o L, "l") @@
  Declared({3, 21}, L \o At("l"), "r") @@ Declared({4, 46, 47, 48}, L \o L, "r") @@
  Declared({5, 26, 28, 32, 45, 50, 80, 81}, L, "r") @@
  Declared({6, 7, 8, 16, 17, 20, 23, 49, 76}, S, "l") @@
  Declared({9, 10, 11, 29}, S \o L, "r") @@ Declared((12 .. 15) \cup {52}, L, "l") @@
  Declared({18, 51}, L, "s") @@ Declared({19, 54}, S, "s") @@
  Declared({22}, Times(3, S) \o L, "l") @@ Declared({24}, S \o S, "l") @@
  Declared({25}, S \o W, "l") @@ Declared({27}, S \o L, "l") @@
  Declared({33, 35}, S \o At("l"), "l") @@ Declared({36, 37, 67, 68, 71, 79}, None, "r") @@
  Declared({40}, L \o At("l"), "s") @@ Declared({42}, L \o L \o S \o W, "l") @@
  Declared({43}, Times(6, L), "l") @@ Declared({44}, Times(3, L), "l") @@
  Declared({53}, S \o Times(3, L), "s") @@ Declared({55}, S \o At("w"), "s") @@
  Declared((56 .. 61) \cup {66, 75, 77, 78}, None, "l") @@ Declared({62}, None, "w") @@
  Declared({63}, S \o W, "r") @@ Declared({64}, S, "w") @@ Declared({65}, S \o S, "r") @@
  Declared({69}, W \o W, "r") @@ Declared({70}, Times(2, At("w")), "r") @@
  Declared({72}, Times(3, L), "s") @@ Declared({82}, Times(4, At("l")), "r") @@
  Declared({83}, None, "s") @@ Declared({84}, W, "s")
SystemGetHAOn ==
  Entries({"GetHAL"}, At("l") \o L, L) @@ Entries({"SetHAL"}, L \o L, L) @@
  Entries({"GetTimer"}, At("l") \o L, R) @@ Entries({"SetTimer"}, L \o L, R) @@
  Entries({"ResetTimer", "SetSoundEnabled", "SetSoundDriverEnabled"}, L, R) @@
  Entries({"VolumeSize", "VolumeSpaceFree", "VolumeUniqueID", "MediaType"}, L, L) @@
  Entries({"IsReadOnly", "IsHidden", "IsSystem"}, S, L)
SystemSetReadOnlyOn ==
  Entries({"SetReadOnly", "SetHiddenFile", "SetSystemFile"}, L \o S, R) @@
  Entries({"DisplayTaskList"}, None, R) @@ Entries({"SetComputeMode"}, L, R) @@
  Entries({"LogonToThread"}, At("l") \o L, R) @@ Entries({"RunApp"}, L \o Times(3, S), L) @@
  Entries({"RunExe"}, S, L)
SystemRunExeWithCommandLineOn ==
  Entries({"RunExeWithCommandLine"}, S \o S, L) @@ Entries({"RunDocument"}, W \o S, L) @@
  Entries({"KillCurrentProcess", "TerminateCurrentProcess"}, L, R) @@
  Entries({"KillProcess"}, L \o S, R) @@ Entries({"TerminateProcess"}, L \o S, L)
SystemModOn ==
  Entries({"Mod", "XOR", "EndTask", "KillTask"}, L \o L, L) @@ Entries({"LoadRsc"}, S, L) @@
  Entries({"UnLoadRsc"}, L, R) @@ Entries({"ReadRsc"}, L, S) @@ Entries({"ReadRscLong"}, L, L) @@
  Entries({"UidCheckSum"}, Times(3, L), S) @@
  Entries({"SetPointerGrabOn", "ClaimPointerGrab", "SetPointerCapture"}, L \o L, R) @@
  Entries({"ThreadIdFromOpenDoc"}, At("l") \o S, L)
SystemThreadIdFromAppUidOn ==
  Entries({"ThreadIdFromAppUid"}, At("l") \o L, L) @@
  Entries({"SetForeground", "SetBackground"}, None, R) @@
  Entries({"SetBackgroundByThread", "SetForegroundByThread", "NextWindowId"}, L \o L, L) @@
  Entries({"NextWindowGroupName"}, At("l") \o L, S) @@
  Entries({"SendSwitchFilesMessageToApp"}, W \o S \o L \o L, L) @@
  Entries({"SendKeyEventToApp"}, Times(6, L), L) @@ Entries({"CaptureKey"}, Times(3, L), L)
SystemCancelCaptureKeyOn ==
  Entries({"CancelCaptureKey"}, L, R) @@ Entries({"FileOpenDialog"}, Times(3, L) \o S, S) @@
  Entries({"FileCreateDialog"}, S, S) @@ Entries({"FileSaveAsDialog"}, At("w") \o S, S)
SystemThreadIdFromCaptionOn ==
  Entries({"ThreadIdFromCaption"}, At("l") \o S, L) @@
  Entries({"OSVersionMajor", "OSVersionMinor", "OSVersionBuild", "ROMVersionMajor",
      "ROMVersionMinor", "ROMVersionBuild", "LanguageIndex"}, None, L) @@
  Entries({"FileSize", "IsDirectory", "IsPathVisible", "GetOPXVersion"}, S, L) @@
  Entries({"VolumeName"}, L, S) @@ Entries({"UniqueFilename"}, S, S)
SystemRemoteLinkStatusOn ==
  Entries({"RemoteLinkStatus"}, None, L) @@
  Entries({"RemoteLinkDisable", "RemoteLinkEnable"}, None, R) @@
  Entries({"RemoteLinkEnableWithOptions"}, W \o W, R)
SystemRemoteLinkConfigOn ==
  Entries({"RemoteLinkConfig"}, Times(2, At("w")), R) @@ Entries({"PWIsEnabled"}, None, W) @@
  Entries({"PWSetEnabled"}, W \o S, R) @@ Entries({"PWIsValid"}, S, W) @@
  Entries({"PWSet"}, S \o S, R) @@ Entries({"Random", "InactivityTime"}, None, L) @@
  Entries({"ResetInactivityTime"}, None, R) @@
  Entries({"MemoryInformation"}, Times(4, At("l")), R) @@
  Entries({"DefaultDocumentFolder"}, None, S)
SystemGetPhoneInfoOn == Entries({"GetPhoneInfo"}, W, S)
SystemHandlers ==
  SystemGetHAOn @@ SystemSetReadOnlyOn @@ SystemRunExeWithCommandLineOn @@ SystemModOn @@
  SystemThreadIdFromAppUidOn @@ SystemCancelCaptureKeyOn @@ SystemThreadIdFromCaptionOn @@
  SystemRemoteLinkStatusOn @@ SystemRemoteLinkConfigOn @@ SystemGetPhoneInfoOn
SystemRunL ==
  From(1, <<
    "GetHAL", "SetHAL", "GetTimer", "SetTimer", "ResetTimer", "IsReadOnly", "IsHidden",
    "IsSystem", "SetReadOnly", "SetHiddenFile", "SetSystemFile", "VolumeSize",
    "VolumeSpaceFree", "VolumeUniqueID", "MediaType", "FileSize", "IsDirectory",
    "VolumeName", "UniqueFilename", "IsPathVisible", "LogonToThread", "RunApp", "RunExe",
    "RunExeWithCommandLine", "RunDocument", "TerminateCurrentProcess", "TerminateProcess",
    "KillCurrentProcess", "KillProcess", "EndTask", "KillTask", "SetComputeMode",
    "ThreadIdFromOpenDoc", "ThreadIdFromAppUid", "ThreadIdFromCaption", "SetBackground",
    "SetForeground", "SetForegroundByThread", "SetBackgroundByThread",
    "NextWindowGroupName", "NextWindowId", "SendSwitchFilesMessageToApp",
    "SendKeyEventToApp", "CaptureKey", "CancelCaptureKey", "ClaimPointerGrab",
    "SetPointerGrabOn", "SetPointerCapture", "LoadRsc", "UnLoadRsc", "ReadRsc",
    "ReadRscLong", "FileOpenDialog", "FileCreateDialog", "FileSaveAsDialog",
    "ROMVersionMajor", "ROMVersionMinor", "ROMVersionBuild", "OSVersionMajor",
    "OSVersionMinor", "OSVersionBuild", "PWIsEnabled", "PWSetEnabled", "PWIsValid",
    "PWSet", "RemoteLinkStatus", "RemoteLinkDisable", "RemoteLinkEnable",
    "RemoteLinkEnableWithOptions", "RemoteLinkConfig", "DisplayTaskList", "UidCheckSum",
    "Mod", "XOR", "LanguageIndex", "GetOPXVersion", "Random", "InactivityTime",
    "ResetInactivityTime", "SetSoundEnabled", "SetSoundDriverEnabled",
    "MemoryInformation", "DefaultDocumentFolder", "GetPhoneInfo">>)

(* Contact: opx/Contact/CONTACT.TXH and contact.cpp.                       *)
ContactDeclared ==
  Declared({1, 2, 39, 43, 100}, S, "r") @@
  Declared({3, 11, 13, 14, 23, 28, 29, 31, 32}, None, "r") @@
  Declared({4, 8, 25, 46, 102, 200, 201, 202}, None, "l") @@
  Declared({5, 7, 9, 10, 26, 30, 34, 41, 42, 47}, L, "r") @@ Declared({6}, S \o L, "l") @@
  Declared({12, 33, 44, 104, 105}, L \o L, "r") @@ Declared({17, 19, 21, 35, 37}, W, "r") @@
  Declared({18, 20, 22, 24, 36, 38}, None, "w") @@ Declared({27}, L, "w") @@
  Declared({40, 45, 101}, None, "s") @@ Declared({103}, L, "l")
ContactCreateContactFileOn ==
  Entries({"CreateContactFileL", "OpenContactFileL"}, S, R) @@
  Entries({"CloseContactFileL", "CompressContactFile", "AddNewItemL", "DeleteItemL"}, None, R) @@
  Entries({"SortItemsL"}, At("l"), R) @@ Entries({"SortedItemsAtL", "ReadItemL"}, L, R) @@
  Entries({"CompressNeeded"}, None, W) @@ Entries({"CountItemsL"}, None, L)
ContactOpenItemOn ==
  Entries({"OpenItemL"}, L, R) @@ Entries({"CloseItemL"}, None, R) @@
  Entries({"ItemIdL"}, None, L) @@ Entries({"SetItemHiddenL", "SetItemSystemL"}, W, R) @@
  Entries({"IsItemHiddenL", "IsItemSystemL"}, None, W) @@
  Entries({"FindItemL"}, At("l") \o S, L) @@ Entries({"CreateItemL"}, L \o L, R)
ContactFieldArrayAtOn ==
  Entries({"ContactFieldArrayAt"}, L, R) @@ Entries({"ContactFieldFind"}, At("l"), W) @@
  Entries({"ContactFieldCount"}, None, L) @@
  Entries({"ContactFieldReset", "ContactFieldAdd"}, None, R)
ContactFieldDeleteOn ==
  Entries({"ContactFieldDelete", "ContactFieldCreate"}, None, R) @@
  Entries({"ContactFieldInsert"}, L, R) @@ Entries({"ContactFieldMove"}, L \o L, R)
ContactFieldContentOn ==
  Entries({"ContactFieldContent"}, At("l"), R) @@
  Entries({"ContactFieldIsHidden", "ContactFieldIsReadOnly"}, None, W) @@
  Entries({"ContactFieldSetHidden", "ContactFieldSetReadOnly"}, W, R) @@
  Entries({"ContactFieldLabel"}, None, S) @@ Entries({"ContactFieldSetLabel"}, S, R) @@
  Entries({"ContactFieldAddType", "ContactFieldSetMapping"}, L, R)
ContactFieldSetTextOn ==
  Entries({"ContactFieldSetText"}, S, R) @@ Entries({"ContactFieldSetLong"}, L \o At("l"), R) @@
  Entries({"ContactFieldText"}, None, S) @@ Entries({"ContactFieldLength"}, None, L) @@
  Entries({"ContactFieldLong"}, At("l"), R) @@ Entries({"ContactFieldDisable"}, W, R) @@
  Entries({"ContactFieldIsDisabled"}, None, W)
ContactTemplateGoldenIdOn == Entries({"TemplateGoldenIdL", "OwnCardIdL", "ItemTypeL"}, None, L)
ContactHandlers ==
  ContactCreateContactFileOn @@ ContactOpenItemOn @@ ContactFieldArrayAtOn @@
  ContactFieldDeleteOn @@ ContactFieldContentOn @@ ContactFieldSetTextOn @@
  ContactTemplateGoldenIdOn
ContactRunL ==
  From(1, <<
    "CreateContactFileL", "OpenContactFileL", "CloseContactFileL", "CountItemsL",
    "SortItemsL", "FindItemL", "SortedItemsAtL", "ItemIdL", "ReadItemL", "OpenItemL",
    "CloseItemL", "CreateItemL", "AddNewItemL", "DeleteItemL">>) @@
  From(17, <<
    "ContactFieldDisable", "ContactFieldIsDisabled", "SetItemHiddenL", "IsItemHiddenL",
    "SetItemSystemL", "IsItemSystemL", "CompressContactFile", "CompressNeeded",
    "ContactFieldCount", "ContactFieldArrayAt", "ContactFieldFind", "ContactFieldReset",
    "ContactFieldCreate", "ContactFieldInsert", "ContactFieldAdd", "ContactFieldDelete",
    "ContactFieldMove", "ContactFieldContent", "ContactFieldSetHidden",
    "ContactFieldIsHidden", "ContactFieldSetReadOnly", "ContactFieldIsReadOnly",
    "ContactFieldSetLabel", "ContactFieldLabel", "ContactFieldSetMapping",
    "ContactFieldAddType", "ContactFieldSetText", "ContactFieldSetLong",
    "ContactFieldText", "ContactFieldLength", "ContactFieldLong">>) @@
  From(200, <<"TemplateGoldenIdL", "OwnCardIdL", "ItemTypeL">>)

(* AppFrame: opx/AppFrame/appframe.txh and appframe.cpp.                   *)
AppFrameDeclared ==
  Declared({1}, Times(6, L), "w") @@ Declared({2}, W \o S \o W \o W \o S, "r") @@
  Declared({3}, W, "r") @@ Declared({4, 6, 15}, W \o W, "r") @@
  Declared({5, 7, 8, 11, 12, 16}, W, "w") @@ Declared({9, 10, 17, 20}, None, "w") @@
  Declared({13}, At("w"), "w") @@ Declared({14}, S \o W, "r") @@
  Declared({18}, Times(4, At("w")), "r") @@ Declared({19, 21, 22}, None, "r") @@
  Declared({23}, Times(3, S), "w") @@ Declared({24}, S \o S, "w")
AppFrameOfferEventOn ==
  Entries({"OfferEvent"}, Times(6, L), W) @@
  Entries({"SetCBAButton"}, S \o W \o W \o S \o W, R) @@
  Entries({"SetCBAButtonDefault"}, W, R) @@ Entries({"SetCBAButtonDimmed"}, W \o W, R) @@
  Entries({"CBAButtonDimmed"}, W, W)
AppFrameSetCBAButtonVisibleOn ==
  Entries({"SetCBAButtonVisible"}, W \o W, R) @@
  Entries({"CBAButtonVisible", "SetCBAVisible"}, W, W) @@
  Entries({"CBAMaxButtons", "CBAVisible"}, None, W)
AppFrameSetStatusOn ==
  Entries({"SetStatus", "SetStatusVisible"}, W, W) @@ Entries({"StatusVisible"}, At("w"), W) @@
  Entries({"SetTitle"}, W \o S, R)
AppFrameSetTitleAreaWidthOn ==
  Entries({"SetTitleAreaWidth"}, W \o W, R) @@ Entries({"SetTitleVisible"}, W, W) @@
  Entries({"TitleVisible", "MenuPaneToStartOn"}, None, W) @@
  Entries({"ScreenInfo"}, Times(4, At("w")), R) @@
  Entries({"AddToDesk", "ViewSystemLog"}, None, R)
AppFrameToggleIrDAOn == Entries({"ToggleIrDA"}, None, R)
AppFrameConfirmationDialogOn ==
  Entries({"ConfirmationDialog"}, Times(3, S), W) @@ Entries({"InfoDialog"}, S \o S, W)
AppFrameHandlers ==
  AppFrameOfferEventOn @@ AppFrameSetCBAButtonVisibleOn @@ AppFrameSetStatusOn @@
  AppFrameSetTitleAreaWidthOn @@ AppFrameToggleIrDAOn @@ AppFrameConfirmationDialogOn
AppFrameRunL ==
  From(1, <<
    "OfferEvent", "SetCBAButton", "SetCBAButtonDefault", "SetCBAButtonDimmed",
    "CBAButtonDimmed", "SetCBAButtonVisible", "CBAButtonVisible", "SetCBAVisible",
    "CBAVisible", "CBAMaxButtons", "SetStatus", "SetStatusVisible", "StatusVisible",
    "SetTitle", "SetTitleAreaWidth", "SetTitleVisible", "TitleVisible", "ScreenInfo",
    "AddToDesk", "MenuPaneToStartOn", "ViewSystemLog", "ToggleIrDA", "ConfirmationDialog",
    "InfoDialog">>)

(* Printer: opx/PRINTER/PRINTER.TXH and PRINTER.CPP.                       *)
PrinterDeclared ==
  Declared({1, 12}, S, "r") @@ Declared({2}, S \o L, "r") @@
  Declared((27 .. 31) \cup {3, 9, 10, 11, 19, 20}, None, "r") @@
  Declared({4, 21, 26, 32}, L, "r") @@ Declared((13 .. 18) \cup {5, 7}, W, "r") @@
  Declared({6}, W \o L, "r") @@
  Declared({8}, Times(3, W) \o Times(3, L) \o W \o W \o L \o W \o L \o L \o Times(5, W) \o L
      \o L, "r") @@
  Declared({22}, L \o L, "r") @@ Declared({23}, Times(3, L), "r") @@
  Declared({24}, Times(4, L), "r") @@ Declared({25}, None, "l")
PrinterSendStringToPrinterOn ==
  Entries({"SendStringToPrinterL", "SetFontNameL"}, S, R) @@
  Entries({"InsertStringL"}, L \o S, R) @@
  Entries({"SendNewParaToPrinterL", "SetLocalParaFormatL", "SetGlobalParaFormatL",
      "RemoveSpecificParaFormatL"}, None, R) @@
  Entries({"InsertNewParaL"}, L, R) @@
  Entries({"SendSpecialCharToPrinterL", "SetAlignmentL", "SetFontHeight", "SetFontPosition",
      "SetFontWeight", "SetFontPosture"}, W, R) @@
  Entries({"InsertSpecialCharL"}, L \o W, R) @@
  Entries({"InitialiseParaFormatL"}, L \o L \o Times(5, W) \o L \o L \o W \o L \o W \o W
      \o Times(3, L) \o Times(3, W), R)
PrinterSetFontStrikethroughOn ==
  Entries({"SetFontStrikethrough", "SetFontUnderline"}, W, R) @@
  Entries({"SetGlobalCharFormatL", "RemoveSpecificCharFormatL", "ResetPrinting",
      "PageSetupDialogL", "PrintPreviewDialogL", "PrintRangeDialogL", "PrintDialogL"}, None, R) @@
  Entries({"SendBitmapToPrinterL", "SendRichTextToPrinterL", "SendBufferToPrinterL"}, L, R) @@
  Entries({"InsertBitmapL"}, L \o L, R) @@
  Entries({"SendScaledBitmapToPrinterL"}, Times(3, L), R) @@
  Entries({"InsertScaledBitmapL"}, Times(4, L), R) @@ Entries({"PrinterDocLength"}, None, L)
PrinterHandlers == PrinterSendStringToPrinterOn @@ PrinterSetFontStrikethroughOn
PrinterRunL ==
  From(1, <<
    "SendStringToPrinterL", "InsertStringL", "SendNewParaToPrinterL", "InsertNewParaL",
    "SendSpecialCharToPrinterL", "InsertSpecialCharL", "SetAlignmentL",
    "InitialiseParaFormatL", "SetLocalParaFormatL", "SetGlobalParaFormatL",
    "RemoveSpecificParaFormatL", "SetFontNameL", "SetFontHeight", "SetFontPosition",
    "SetFontWeight", "SetFontPosture", "SetFontStrikethrough", "SetFontUnderline",
    "SetGlobalCharFormatL", "RemoveSpecificCharFormatL", "SendBitmapToPrinterL",
    "InsertBitmapL", "SendScaledBitmapToPrinterL", "InsertScaledBitmapL",
    "PrinterDocLength", "SendRichTextToPrinterL", "ResetPrinting", "PageSetupDialogL",
    "PrintPreviewDialogL", "PrintRangeDialogL", "PrintDialogL", "SendBufferToPrinterL">>)

(* SendAs: opx/SendAs/sendas.txh and sendas.cpp.                           *)
SendAsDeclared ==
  Declared({1, 13, 15, 17}, None, "r") @@ Declared({2, 6, 12}, None, "l") @@
  Declared({3}, L \o L, "w") @@ Declared({4}, L, "s") @@ Declared({5, 7}, L, "l") @@
  Declared({8, 16}, L, "r") @@ Declared({9}, S, "w") @@ Declared({10, 11, 14}, S, "r")
SendAsHandlers ==
  Entries({"ScanTypesL", "DeleteBodyL", "ResetBodyL", "LaunchSendL"}, None, R) @@
  Entries({"MaximumTypesL", "NextAvailableHotkeyL", "NewBodyL"}, None, L) @@
  Entries({"CapabilityCheckL"}, L \o L, W) @@ Entries({"CascNameL"}, L, S) @@
  Entries({"HotkeyValueL", "UidOfMtmL"}, L, L) @@
  Entries({"PrepareMessageL", "SetBodyL"}, L, R) @@ Entries({"SetSubject"}, S, W) @@
  Entries({"AddFileL", "AddRecipientL", "AppendToBodyL"}, S, R)
SendAsRunL ==
  From(1, <<
    "ScanTypesL", "MaximumTypesL", "CapabilityCheckL", "CascNameL", "HotkeyValueL",
    "NextAvailableHotkeyL", "UidOfMtmL", "PrepareMessageL", "SetSubject", "AddFileL",
    "AddRecipientL", "NewBodyL", "DeleteBodyL", "AppendToBodyL", "ResetBodyL", "SetBodyL",
    "LaunchSendL">>)

(* Data: opx/Data/Data.txh and Data.cpp.                                   *)
DataDeclared ==
  Declared({1}, S, "l") @@ Declared({2}, S \o L, "s") @@ Declared({3, 6}, S \o S, "l") @@
  Declared({4, 7}, S \o S \o L, "s") @@ Declared({5}, Times(3, S), "s") @@
  Declared({8, 9}, S \o S \o L, "l") @@ Declared({10}, S \o S \o L, "w") @@
  Declared({11, 12}, L \o S \o S, "r") @@ Declared({13}, None, "r") @@
  Declared({14}, S \o L \o L, "r") @@ Declared({15}, S \o S, "r") @@
  Declared({16, 18, 21}, L, "l") @@ Declared({17}, L, "s") @@
  Declared({19, 20, 24, 33}, L, "r") @@ Declared({22, 26, 29, 30}, L \o L, "r") @@
  Declared({23, 31}, Times(3, L), "r") @@ Declared({25}, S \o L, "r") @@
  Declared({27, 28}, R \o L, "r") @@ Declared({32}, S \o W, "w") @@
  Declared({34, 35, 38}, L \o S \o S \o L, "l") @@ Declared({36}, Times(3, S) \o L, "l") @@
  Declared({37}, R \o S \o S \o L, "l") @@ Declared({39}, None, "l") @@
  Declared({40}, S \o W, "l")
DataDbGetTableCountOn ==
  Entries({"DbGetTableCount"}, S, L) @@ Entries({"DbGetTableName"}, L \o S, S) @@
  Entries({"DbGetIndexCount", "DbGetFieldCount"}, S \o S, L) @@
  Entries({"DbGetIndexName", "DbGetFieldName"}, L \o S \o S, S) @@
  Entries({"DbGetIndexDescription"}, Times(3, S), S) @@
  Entries({"DbGetFieldType", "DbGetFieldSize"}, L \o S \o S, L) @@
  Entries({"DbGetFieldCanBeEmpty"}, L \o S \o S, W)
DataDbOpenOn ==
  Entries({"DbOpen"}, S \o S \o L, R) @@ Entries({"DbStartTable"}, None, R) @@
  Entries({"DbTableField"}, L \o L \o S, R) @@ Entries({"DbCreateTable"}, S \o S, R) @@
  Entries({"DbCount"}, None, L)
DataDbSeekIntOn ==
  Entries({"DbSeekInt", "DbSeekWord", "DbSeekDateTime"}, L \o S \o S \o L, L) @@
  Entries({"DbSeekText"}, L \o Times(3, S), L) @@ Entries({"DbSeekReal"}, L \o S \o S \o R, L) @@
  Entries({"DbGetLength", "DbGetInt", "DbGetWord"}, L, L) @@ Entries({"DbGetString"}, L, S) @@
  Entries({"DbGetReal", "DbGetReal32"}, L, R) @@ Entries({"DbGetDateTime"}, L \o L, R) @@
  Entries({"DbGetLong"}, Times(3, L), R)
DataDbPutEmptyOn ==
  Entries({"DbPutEmpty", "DbUse"}, L, R) @@ Entries({"DbPutString"}, L \o S, R) @@
  Entries({"DbPutInt", "DbPutWord", "DbPutDateTime"}, L \o L, R) @@
  Entries({"DbPutReal", "DbPutReal32"}, L \o R, R) @@ Entries({"DbPutLong"}, Times(3, L), R) @@
  Entries({"DbFindWhere"}, W \o S, W) @@ Entries({"DbFindSql"}, W \o S, L)
DataHandlers == DataDbGetTableCountOn @@ DataDbOpenOn @@ DataDbSeekIntOn @@ DataDbPutEmptyOn
DataRunL ==
  From(1, <<
    "DbGetTableCount", "DbGetTableName", "DbGetIndexCount", "DbGetIndexName",
    "DbGetIndexDescription", "DbGetFieldCount", "DbGetFieldName", "DbGetFieldType",
    "DbGetFieldSize", "DbGetFieldCanBeEmpty", "DbOpen", "DbOpen", "DbStartTable",
    "DbTableField", "DbCreateTable", "DbGetLength", "DbGetString", "DbGetInt",
    "DbGetReal", "DbGetReal32", "DbGetWord", "DbGetDateTime", "DbGetLong", "DbPutEmpty",
    "DbPutString", "DbPutInt", "DbPutReal", "DbPutReal32", "DbPutWord", "DbPutDateTime",
    "DbPutLong", "DbFindWhere", "DbUse", "DbSeekInt", "DbSeekWord", "DbSeekText",
    "DbSeekReal", "DbSeekDateTime", "DbCount", "DbFindSql">>)

(* Alarm: opx/ALARM/ALARM.TXH and ALARM.CPP.                               *)
AlarmDeclared ==
  Declared({1}, L \o L \o S \o S \o L, "r") @@ Declared({2}, L, "l") @@
  Declared({3}, L \o L, "r") @@ Declared({4, 6, 7, 8}, L, "r") @@
  Declared({5, 25, 26}, None, "r") @@ Declared({9, 23, 24}, None, "l") @@
  Declared({10, 21}, S \o S, "r") @@ Declared({11}, S \o Times(3, L), "r") @@
  Declared({12}, None, "s") @@ Declared(13 .. 16, S, "s") @@
  Declared({17}, S \o S \o L \o L \o S \o W \o L \o W \o W, "r") @@
  Declared({18}, Times(5, S) \o L \o L \o S \o W \o L \o W \o W, "r") @@
  Declared({19}, Times(4, S) \o L \o L \o S \o W \o L \o W \o W, "r") @@
  Declared({20}, Times(6, S), "r") @@ Declared({22}, S, "r")
AlarmSetClockAlarmOn ==
  Entries({"SetClockAlarm"}, L \o S \o S \o L \o L, R) @@ Entries({"AlarmState"}, L, L) @@
  Entries({"AlarmEnable"}, L \o L, R) @@
  Entries({"AlarmDelete", "QuietPeriodUntil", "QuietPeriodSet"}, L, R) @@
  Entries({"QuietPeriodCancel"}, None, R)
AlarmSetAlarmSoundOnOn ==
  Entries({"SetAlarmSoundOn"}, L, R) @@ Entries({"AlarmSoundState"}, None, L) @@
  Entries({"FindCity"}, S \o S, R) @@ Entries({"Sunlight"}, Times(3, L) \o S, R) @@
  Entries({"Home"}, None, S) @@ Entries({"MoveCity"}, S, S)
AlarmMoveCountryOn ==
  Entries({"MoveCountry"}, S, S) @@
  Entries({"AddCity"}, W \o W \o L \o W \o S \o L \o L \o S \o S, R) @@
  Entries({"AddCountry"}, W \o W \o L \o W \o S \o L \o L \o Times(5, S), R)
AlarmEditCityOn ==
  Entries({"EditCity"}, W \o W \o L \o W \o S \o L \o L \o Times(4, S), R) @@
  Entries({"EditCountry"}, Times(6, S), R) @@ Entries({"DeleteCity"}, S \o S, R) @@
  Entries({"DeleteCountry"}, S, R) @@
  Entries({"NumberOfCities", "NumberOfCountries"}, None, L) @@ Entries({"SaveDataFile"}, None, R)
AlarmRevertDataFileOn == Entries({"RevertDataFile"}, None, R)
AlarmHandlers ==
  AlarmSetClockAlarmOn @@ AlarmSetAlarmSoundOnOn @@ AlarmMoveCountryOn @@ AlarmEditCityOn @@
  AlarmRevertDataFileOn
AlarmRunL ==
  From(1, <<
    "SetClockAlarm", "AlarmState", "AlarmEnable", "AlarmDelete", "QuietPeriodCancel",
    "QuietPeriodUntil", "QuietPeriodSet", "SetAlarmSoundOn", "AlarmSoundState",
    "FindCity", "Sunlight", "Home", "MoveCity", "MoveCountry", "MoveCity", "MoveCountry",
    "AddCity", "AddCountry", "EditCity", "EditCountry", "DeleteCity", "DeleteCountry",
    "NumberOfCities", "NumberOfCountries", "SaveDataFile", "RevertDataFile">>)

(* DateTime: opx/DATE/DATE.TXH and DATETIME.CPP.                           *)
DateTimeDeclared ==
  Declared({1}, Times(7, L), "l") @@ Declared({2, 30}, L, "r") @@
  Declared((3 .. 9) \cup {28, 29, 33}, L, "l") @@ Declared(10 .. 16, L \o L, "r") @@
  Declared({17}, None, "l") @@ Declared({18}, L \o L \o Times(7, At("l")), "r") @@
  Declared((19 .. 25) \cup {27}, L \o L, "l") @@ Declared({26}, Times(3, L), "l") @@
  Declared({31, 32}, S \o L, "r")
DateTimeDTNewDateTimeOn ==
  Entries({"DTNewDateTime"}, Times(7, L), L) @@ Entries({"DTDeleteDateTime"}, L, R)
DateTimeDTYearOn ==
  Entries({"DTYear", "DTMonth", "DTDay", "DTHour", "DTMinute", "DTSecond", "DTMicro"}, L, L) @@
  Entries({"DTSetYearL", "DTSetMonthL", "DTSetDayL", "DTSetHourL", "DTSetMinuteL",
      "DTSetSecondL", "DTSetMicroL"}, L \o L, R) @@
  Entries({"DTSetHomeTime"}, L, R)
DateTimeDTNowOn ==
  Entries({"DTNow"}, None, L) @@ Entries({"DTDateTimeDiff"}, Times(7, At("l")) \o L \o L, R) @@
  Entries({"DTYearsDiff", "DTMonthsDiff", "DTDaysDiff", "DTHoursDiff", "DTMinutesDiff",
      "DTSecsDiff"}, L \o L, L)
DateTimeDTMicrosDiffOn ==
  Entries({"DTMicrosDiff", "DTDayNoInYear"}, L \o L, L) @@
  Entries({"DTWeekNoInYear"}, Times(3, L), L) @@
  Entries({"DTDayNoInWeek", "DTDaysInMonth", "DTIsLeapYear"}, L, L) @@
  Entries({"DTFileTime", "DTSetFileTime"}, L \o S, R)
DateTimeHandlers ==
  DateTimeDTNewDateTimeOn @@ DateTimeDTYearOn @@ DateTimeDTNowOn @@ DateTimeDTMicrosDiffOn
DateTimeRunL ==
  From(1, <<
    "DTNewDateTime", "DTDeleteDateTime", "DTYear", "DTMonth", "DTDay", "DTHour",
    "DTMinute", "DTSecond", "DTMicro", "DTSetYearL", "DTSetMonthL", "DTSetDayL",
    "DTSetHourL", "DTSetMinuteL", "DTSetSecondL", "DTSetMicroL", "DTNow",
    "DTDateTimeDiff", "DTYearsDiff", "DTMonthsDiff", "DTDaysDiff", "DTHoursDiff",
    "DTMinutesDiff", "DTSecsDiff", "DTMicrosDiff", "DTWeekNoInYear", "DTDayNoInYear",
    "DTDayNoInWeek", "DTDaysInMonth", "DTSetHomeTime", "DTFileTime", "DTSetFileTime",
    "DTIsLeapYear">>)

(* Array: opx/Array/Array.txh and Array.cpp.                               *)
ArrayDeclared ==
  Declared({1}, None, "l") @@ Declared({2, 3, 11, 19}, L, "r") @@
  Declared({4, 6, 8, 10, 15}, L \o W, "r") @@ Declared({5, 7, 9, 16}, L, "w") @@
  Declared({12, 18}, L \o S, "w") @@ Declared({13, 14}, L \o W \o S, "r") @@
  Declared({17}, L \o W, "s") @@ Declared({20}, L \o W \o S \o W, "w") @@
  Declared({21, 27}, L \o S, "l") @@ Declared({22, 23}, L \o L \o S, "r") @@
  Declared({24}, L \o L, "r") @@ Declared({25}, L, "l") @@ Declared({26}, L \o L, "s") @@
  Declared({28}, L \o L \o S \o W, "l")
ArrayNewOn ==
  Entries({"ArrayNewL"}, None, L) @@ Entries({"ArrayFreeL", "ArrayClearL"}, L, R) @@
  Entries({"ArraySetDuplicatesL", "ArraySetCompareTypeL", "ArraySetSortModeL",
      "ArraySetSortedL"}, W \o L, R) @@
  Entries({"ArrayGetDuplicatesL", "ArrayGetCompareTypeL", "ArrayGetSortModeL",
      "ArrayGetSortedL"}, L, W)
ArrayAddOn ==
  Entries({"ArrayAddL"}, S \o L, W) @@ Entries({"ArrayAddL long"}, S \o L, L) @@
  Entries({"ArrayInsertL", "ArrayReplaceL"}, S \o W \o L, R) @@
  Entries({"ArrayInsertL long", "ArrayReplaceL long"}, S \o L \o L, R) @@
  Entries({"ArrayDeleteL"}, W \o L, R) @@ Entries({"ArrayDeleteL long"}, L \o L, R) @@
  Entries({"ArraySizeL"}, L, W) @@ Entries({"ArraySizeL long"}, L, L) @@
  Entries({"ArrayAtL"}, W \o L, S) @@ Entries({"ArrayAtL long"}, L \o L, S)
ArrayFindOn ==
  Entries({"ArrayFindL", "ArrayFindL long"}, S \o L, W) @@ Entries({"ArraySortL"}, L, R) @@
  Entries({"ArrayFindPartialL"}, W \o S \o W \o L, W) @@
  Entries({"ArrayFindPartialL long"}, W \o S \o L \o L, L)
ArrayHandlers == ArrayNewOn @@ ArrayAddOn @@ ArrayFindOn
ArrayRunL ==
  From(1, <<
    "ArrayNewL", "ArrayFreeL", "ArrayClearL", "ArraySetDuplicatesL",
    "ArrayGetDuplicatesL", "ArraySetCompareTypeL", "ArrayGetCompareTypeL",
    "ArraySetSortModeL", "ArrayGetSortModeL", "ArraySetSortedL", "ArrayGetSortedL",
    "ArrayAddL", "ArrayInsertL", "ArrayReplaceL", "ArrayDeleteL", "ArraySizeL",
    "ArrayAtL", "ArrayFindL", "ArraySortL", "ArrayFindPartialL", "ArrayAddL long",
    "ArrayInsertL long", "ArrayReplaceL long", "ArrayDeleteL long", "ArraySizeL long",
    "ArrayAtL long", "ArrayFindL long", "ArrayFindPartialL long">>)

(* CellTrack: opx/celltrack/celltrack.txh and celltrack.cpp.               *)
CellTrackDeclared ==
  Declared({1, 109}, S, "w") @@ Declared({2}, L, "s") @@ Declared({3, 4}, None, "w") @@
  Declared({5}, None, "s") @@ Declared({6, 201}, W, "s") @@ Declared({100, 106}, W, "w") @@
  Declared({103}, S \o W \o W, "s") @@ Declared({104}, S \o W \o W, "l") @@
  Declared({200}, W, "l") @@ Declared({202, 203}, L, "l")
CellTrackCBSOnOffStatOn ==
  Entries({"CBSOnOffStat", "CBSListsOpenCloseStat"}, W, W) @@ Entries({"CBSListsInit"}, S, W) @@
  Entries({"CBSReadMsg"}, W \o W \o S, S) @@ Entries({"CBSMsgInfo"}, W \o W \o S, W)
CellTrackSwitchProfileOn ==
  Entries({"SwitchProfile"}, S, W) @@ Entries({"ProfileCount", "ActiveProfile"}, None, W) @@
  Entries({"ActiveProfileName"}, None, S) @@ Entries({"ExtraProfileName", "ProfileNameLC"}, W, S)
CellTrackCellInfoOn ==
  Entries({"CellInfo"}, W, L) @@ Entries({"Serial"}, W, S) @@ Entries({"Info", "InfoUid"}, L, L)
CellTrackHandlers == CellTrackCBSOnOffStatOn @@ CellTrackSwitchProfileOn @@ CellTrackCellInfoOn
CellTrackRunL ==
  From(1, <<
    "SwitchProfile", "ProfileNameLC", "ProfileCount", "ActiveProfile",
    "ActiveProfileName", "ExtraProfileName">>) @@
  From(100, <<"CBSOnOffStat">>) @@
  From(103, <<"CBSReadMsg", "CBSMsgInfo">>) @@
  From(106, <<"CBSListsOpenCloseStat">>) @@
  From(109, <<"CBSListsInit">>) @@
  From(200, <<"CellInfo", "Serial", "Info", "InfoUid">>)

(* Locale: opx/Locale/locale.txh and locale.cpp.                           *)
LocaleDeclared ==
  Declared({1}, S, "s") @@ Declared({2, 3, 7, 9, 10, 19, 25, 28, 31, 35, 39}, None, "l") @@
  Declared({4, 5, 21, 23}, None, "s") @@ Declared({6, 22, 24}, S, "r") @@
  Declared({8, 26, 29, 32, 36, 40}, L, "r") @@ Declared({11, 13, 15, 33}, None, "w") @@
  Declared({12, 14, 16, 34}, W, "r") @@ Declared({17}, Times(3, At("l")), "r") @@
  Declared({18}, Times(3, L), "r") @@ Declared({20, 41}, L, "w") @@
  Declared({27, 30, 37, 38}, L, "s")
LocaleTInt16LocaleFunctionOn ==
  Entries({"TInt16LocaleFunction"}, None, W) @@ Entries({"SetTInt16LocaleFunction"}, W, R) @@
  Entries({"TInt32LocaleFunction"}, None, L) @@
  Entries({"SetTInt32LocaleFunction", "SetLocalePositionFunction"}, L, R) @@
  Entries({"SeparatorCharacter"}, None, S)
LocaleSetSeparatorCharacterOn ==
  Entries({"SetSeparatorCharacter", "CurrencySymbolSet"}, S, R) @@
  Entries({"NearestLanguageFile"}, S, S) @@
  Entries({"HomeCountry", "CurrencySymbol"}, None, S) @@
  Entries({"Units"}, Times(3, At("l")), R) @@ Entries({"SetUnits"}, Times(3, L), R) @@
  Entries({"DaylightSaving"}, L, W) @@ Entries({"SetDateFormat", "SetTimeFormat"}, L, R) @@
  Entries({"DateSeparator", "TimeSeparator"}, L, S)
LocaleSetClockFormatOn ==
  Entries({"SetClockFormat", "SetStartOfWeek"}, L, R) @@
  Entries({"DayNameFull", "MonthNameFull"}, L, S) @@ Entries({"Workday"}, L, W)
LocaleHandlers ==
  LocaleTInt16LocaleFunctionOn @@ LocaleSetSeparatorCharacterOn @@ LocaleSetClockFormatOn
LocaleRunL ==
  From(1, <<
    "NearestLanguageFile", "TInt32LocaleFunction", "TInt32LocaleFunction", "HomeCountry",
    "CurrencySymbol", "CurrencySymbolSet", "TInt32LocaleFunction",
    "SetLocalePositionFunction", "TInt32LocaleFunction", "SetTInt32LocaleFunction",
    "TInt16LocaleFunction", "SetTInt16LocaleFunction", "TInt16LocaleFunction",
    "SetTInt16LocaleFunction", "TInt16LocaleFunction", "SetTInt16LocaleFunction", "Units",
    "SetUnits", "TInt32LocaleFunction", "DaylightSaving", "SeparatorCharacter",
    "SetSeparatorCharacter", "SeparatorCharacter", "SetSeparatorCharacter",
    "TInt32LocaleFunction", "SetDateFormat", "DateSeparator", "TInt32LocaleFunction",
    "SetTimeFormat", "TimeSeparator", "TInt32LocaleFunction", "SetLocalePositionFunction",
    "TInt16LocaleFunction", "SetTInt16LocaleFunction", "TInt32LocaleFunction",
    "SetClockFormat", "DayNameFull", "MonthNameFull", "TInt32LocaleFunction",
    "SetStartOfWeek", "Workday">>)

(* SComms: opx/SComms/SCOMMS.TXH and SCOMMS.CPP.                           *)
SCommsDeclared ==
  Declared({1}, S, "l") @@ Declared({2}, L \o L, "l") @@
  Declared({3}, L \o S \o L \o At("l"), "r") @@ Declared({4}, Times(4, L) \o At("l"), "r") @@
  Declared({5}, L \o L \o At("l"), "r") @@ Declared({6}, L, "l") @@ Declared(7 .. 9, L, "r")
SCommsSCConnectOn ==
  Entries({"SCConnect"}, S, L) @@ Entries({"SCWriteA"}, At("l") \o L \o S \o L, R) @@
  Entries({"SCReadA"}, At("l") \o Times(4, L), R) @@
  Entries({"SCReadOneOrMoreA"}, At("l") \o L \o L, R) @@ Entries({"SCQueryReceiveBuffer"}, L, L)
SCommsSCDisconnectOn ==
  Entries({"SCDisconnect", "SCReadCancel", "SCWriteCancel"}, L, R) @@
  Entries({"SCSetConfig"}, L \o L, L)
SCommsHandlers == SCommsSCConnectOn @@ SCommsSCDisconnectOn
SCommsRunL ==
  From(1, <<
    "SCConnect", "SCSetConfig", "SCWriteA", "SCReadA", "SCReadOneOrMoreA",
    "SCQueryReceiveBuffer", "SCDisconnect", "SCReadCancel", "SCWriteCancel">>)

(* Media: opx/mediaserveropx/mediaserveropx.txh and mediaserverOpx.cpp.    *)
MediaDeclared ==
  Declared({1}, None, "w") @@ Declared({2, 3, 26, 27}, None, "l") @@
  Declared({4, 8, 23, 25}, L, "r") @@ Declared({5, 7, 24}, L \o L, "r") @@
  Declared({6}, Times(3, L), "r") @@ Declared({9, 16, 18, 20, 22}, None, "r") @@
  Declared({10}, L, "s") @@ Declared({11}, L \o L \o At("l"), "r") @@
  Declared({12, 14, 28}, S \o At("l"), "r") @@ Declared({13, 15}, L \o At("l"), "r") @@
  Declared({17, 21}, At("l"), "r") @@ Declared({19}, S \o L \o L \o At("l"), "r")
MediaCreateFilePlayerAOn ==
  Entries({"CreateFilePlayerAL"}, At("l") \o L \o L \o S, R) @@
  Entries({"CreateFilePlayerSimpleAL"}, At("l") \o S, R) @@
  Entries({"CloseFilePlayerL", "StopFileL"}, None, R) @@ Entries({"PlayFileAL"}, At("l"), R) @@
  Entries({"FileMaxVolumeL", "DurationL"}, None, L) @@
  Entries({"FileSetVolumeRampL", "FileSetVolumeL"}, L, R) @@
  Entries({"FileSetRepeatsL"}, L \o L, R)
MediaPrepareToPlayToneAOn ==
  Entries({"PrepareToPlayToneAL"}, At("l") \o L \o L, R) @@
  Entries({"PrepareToPlayFileSequenceAL"}, At("l") \o S, R) @@ Entries({"ToneState"}, None, W) @@
  Entries({"ToneMaxVolumeL", "ToneVolumeL"}, None, L) @@
  Entries({"ToneSetVolumeL", "ToneSetVolumeRampL"}, L, R) @@
  Entries({"ToneSetRepeatsL", "ToneSetPriorityL"}, L \o L, R) @@
  Entries({"CancelPlay", "CancelPrepare"}, None, R) @@ Entries({"PlayToneAL"}, At("l"), R)
MediaHandlers == MediaCreateFilePlayerAOn @@ MediaPrepareToPlayToneAOn
MediaRunL ==
  From(1, <<
    "ToneState", "ToneMaxVolumeL", "ToneVolumeL", "ToneSetVolumeL", "ToneSetPriorityL">>) @@
  From(7, <<"ToneSetRepeatsL", "ToneSetVolumeRampL">>) @@
  From(11, <<"PrepareToPlayToneAL">>) @@
  From(14, <<"PrepareToPlayFileSequenceAL">>) @@
  From(16, <<
    "CancelPrepare", "PlayToneAL", "CancelPlay", "CreateFilePlayerAL", "CloseFilePlayerL",
    "PlayFileAL", "StopFileL", "FileSetVolumeL", "FileSetRepeatsL", "FileSetVolumeRampL",
    "DurationL", "FileMaxVolumeL", "CreateFilePlayerSimpleAL">>)

(* Dbase: opx/DBASE/DBASE.TXH and DBASEOPX.CPP.                            *)
DbaseDeclared ==
  Declared({1}, L \o S \o L, "r") @@ Declared({2}, L \o S \o L \o L, "r") @@
  Declared({3}, S \o L \o S \o S, "r") @@ Declared({4, 11}, L, "r") @@
  Declared({5}, Times(3, S), "r") @@ Declared({6}, S \o S, "l") @@
  Declared({7}, S \o S \o L, "s") @@ Declared({8}, S \o S \o L, "l") @@ Declared({9}, S, "l") @@
  Declared({10}, L, "l") @@ Declared({12}, None, "l") @@ Declared({13}, S, "r") @@
  Declared({14}, L \o L, "r") @@ Declared({15}, None, "r")
DbaseNewKeyOn == Entries({"NewKey"}, None, L) @@ Entries({"DeleteKey"}, L, R)
DbaseAddFieldOn ==
  Entries({"AddField"}, L \o S \o L, R) @@ Entries({"AddFieldTrunc"}, L \o L \o S \o L, R) @@
  Entries({"SetComparison"}, L \o L, R) @@ Entries({"MakeUnique"}, L, R) @@
  Entries({"IsUnique"}, L, L) @@ Entries({"CreateIndex"}, S \o S \o L \o S, R) @@
  Entries({"DropIndex"}, Times(3, S), R) @@ Entries({"Recover"}, S, R) @@
  Entries({"IsDamaged"}, S, L) @@ Entries({"GetFieldCount"}, S \o S, L)
DbaseGetFieldTypeOn ==
  Entries({"GetFieldType"}, L \o S \o S, L) @@ Entries({"GetFieldName"}, L \o S \o S, S) @@
  Entries({"RefreshDatabase"}, None, R)
DbaseHandlers == DbaseNewKeyOn @@ DbaseAddFieldOn @@ DbaseGetFieldTypeOn
DbaseRunL ==
  From(1, <<
    "AddField", "AddFieldTrunc", "CreateIndex", "DeleteKey", "DropIndex", "GetFieldCount",
    "GetFieldName", "GetFieldType", "IsDamaged", "IsUnique", "MakeUnique", "NewKey",
    "Recover", "SetComparison", "RefreshDatabase">>)

(* Bitmap: opx/BMP/BMP.TXH and OPXBMP.CPP.                                 *)
BitmapDeclared ==
  Declared({1}, S \o L, "l") @@ Declared({2, 9, 10}, L, "r") @@ Declared({3}, L, "l") @@
  Declared({4}, W \o Times(3, L), "l") @@ Declared({5}, Times(6, L), "r") @@
  Declared({6}, Times(7, L), "r") @@ Declared({7}, None, "r") @@ Declared({8}, L \o L, "r")
BitmapLoadBitmapOn ==
  Entries({"LoadBitmapL"}, L \o S, L) @@ Entries({"UnloadBitmapL"}, L, R) @@
  Entries({"BitmapDisplayModeL"}, L, L) @@ Entries({"SpriteCreateL"}, Times(3, L) \o W, L)
BitmapSpriteAppendOn ==
  Entries({"SpriteAppendL"}, Times(6, L), R) @@ Entries({"SpriteChangeL"}, Times(7, L), R) @@
  Entries({"SpriteDrawL"}, None, R) @@ Entries({"SpritePosL"}, L \o L, R) @@
  Entries({"SpriteDeleteL", "SpriteUseL"}, L, R)
BitmapHandlers == BitmapLoadBitmapOn @@ BitmapSpriteAppendOn
BitmapRunL ==
  From(1, <<
    "LoadBitmapL", "UnloadBitmapL", "BitmapDisplayModeL", "SpriteCreateL",
    "SpriteAppendL", "SpriteChangeL", "SpriteDrawL", "SpritePosL", "SpriteDeleteL",
    "SpriteUseL">>)

(* Spell: opx/Spell/Spell.txh and Spell.cpp.                               *)
SpellDeclared ==
  Declared({1}, S, "s") @@ Declared({2}, L, "r") @@ Declared({3}, None, "r") @@
  Declared({4, 7}, None, "l") @@ Declared({5}, L \o L, "s") @@
  Declared({6, 8}, S \o L \o S, "r") @@ Declared({9}, S \o L \o L \o S, "r")
SpellHandlers ==
  Entries({"Spell"}, S, S) @@ Entries({"SpellBuffer"}, L \o L, S) @@
  Entries({"SpellWhere", "SpellUserDict"}, None, L) @@
  Entries({"SpellAlternatives", "ExpandWildcards"}, S \o L \o S, R) @@
  Entries({"FindAnagrams"}, S \o L \o L \o S, R) @@ Entries({"OpenSpeller"}, L, R) @@
  Entries({"CloseSpeller"}, None, R)
SpellRunL ==
  From(1, <<
    "Spell", "OpenSpeller", "CloseSpeller", "SpellUserDict", "SpellBuffer",
    "SpellAlternatives", "SpellWhere", "ExpandWildcards", "FindAnagrams">>)

(* Convert: opx/Convert/Convert.txh and Convert.cpp.                       *)
ConvertDeclared ==
  Declared({1, 8, 9}, None, "l") @@ Declared({2}, L, "s") @@ Declared({3}, L, "l") @@
  Declared({4, 10}, L, "r") @@ Declared({5, 11, 12}, None, "r") @@
  Declared({6}, L \o L \o S, "r") @@ Declared({7}, L \o L, "s")
ConvertHandlers ==
  Entries({"CharSetsL", "BadCharCount", "FirstBadChar"}, None, L) @@
  Entries({"CharSetNameL"}, L, S) @@ Entries({"CharSetUidL"}, L, L) @@
  Entries({"SelectCharSetL", "SetReplaceChar"}, L, R) @@
  Entries({"ResetToDefaults", "SetLittleEndianL", "SetBigEndianL"}, None, R) @@
  Entries({"FromUnicodeL"}, S \o L \o L, R) @@ Entries({"UnicodeL"}, L \o L, S)
ConvertRunL ==
  From(1, <<
    "CharSetsL", "CharSetNameL", "CharSetUidL", "SelectCharSetL", "ResetToDefaults",
    "FromUnicodeL", "UnicodeL", "BadCharCount", "FirstBadChar", "SetReplaceChar",
    "SetLittleEndianL", "SetBigEndianL">>)

(* Buffer: opx/Buffer/Buffer.txh and Buffer.cpp.                           *)
BufferDeclared ==
  Declared({1}, Times(3, L), "r") @@ Declared({2}, L \o L \o W, "r") @@
  Declared({3}, L \o L, "s") @@ Declared({4}, L \o L \o S, "l") @@
  Declared({5, 6}, L \o L \o S \o L, "l") @@ Declared({7, 8}, L \o L \o W \o L, "l")
BufferHandlers ==
  Entries({"BufferCopy"}, Times(3, L), R) @@ Entries({"BufferFill"}, W \o L \o L, R) @@
  Entries({"BufferAsString"}, L \o L, S) @@ Entries({"BufferFromString"}, S \o L \o L, L) @@
  Entries({"BufferMatch", "BufferFind"}, L \o S \o L \o L, L) @@
  Entries({"BufferLocate", "BufferLocateReverse"}, L \o W \o L \o L, L)
BufferRunL ==
  From(1, <<
    "BufferCopy", "BufferFill", "BufferAsString", "BufferFromString", "BufferMatch",
    "BufferFind", "BufferLocate", "BufferLocateReverse">>)
=============================================================================
