---------------------------- MODULE SmcliCommands ----------------------------
(***************************************************************************)
(* The commands of smcli: for every API name the function that serves it,  *)
(* as the options its getopt string and its switch take, what each option  *)
(* is stored in, what the "Missing required options" test asks of it, and  *)
(* what it does with the answer.                                           *)
(* Texts are abstracted to whether they are given and to their length,     *)
(* numbers to their sign.                                                  *)
(***************************************************************************)
EXTENDS Integers, Sequences

(* The options.  A variable starts as NULL, as "" or as a number; `tested' *)
(* says how the missing-option test looks at it.                           *)
Option(l, p, start, tested) ==
  [letter |-> l, param |-> p, start |-> start, tested |-> tested, cap |-> 0, most |-> 0, least |-> 0]

Text(l, p)    == Option(l, p, "NULL", TRUE)      \* char* x = NULL; ... !x
Loose(l, p)   == Option(l, p, "NULL", FALSE)     \* char* x = NULL; not tested
Unset(l, p)   == Option(l, p, "empty", TRUE)     \* char* x = ""; !x is never true
Empty(l, p)   == Option(l, p, "empty", FALSE)    \* char* x = "";
Number(l, p)  == Option(l, p, "minus", TRUE)     \* int x = -1; ... x < 0
Nonzero(l, p) == Option(l, p, "zero", TRUE)      \* int x = 0; ... !x
Plain(l, p)   == Option(l, p, "number", FALSE)   \* int x; not tested
NoCase(l)     == Option(l, "none", "nocase", FALSE)  \* in the getopt string, not in the switch
Literal(p, n) == [Option("none", p, "literal", FALSE) EXCEPT !.least = n]

(* -k: entryArray has `cap' places; the switch stores while fewer than     *)
(* `most' are there; the test asks for `least'.  A KeyList is allocated    *)
(* with a place for every option of the command line.                      *)
Keys(l, cap, most, least) ==
  [Option(l, "none", "keys", FALSE) EXCEPT !.cap = cap, !.most = most, !.least = least]
Unlimited == 99
KeyList(l, least) == Keys(l, Unlimited, Unlimited, least)

(* What a command does with the answer of its vmapi function. *)
Result       == "Result"        \* reports return and reason code
Listing      == "Listing"       \* collects its output; the data may be found wrong
Async        == "Async"         \* 592: asks for the state of the operation until it is done
Activating   == "Activating"    \* 200/16: calls again, some times
Deactivating == "Deactivating"  \* return code 0 is success with any reason code
Level        == "Level"         \* the reason code is the answer
Located      == "Located"       \* checks the data after the header is printed
Accepting(reason) == IF reason = 12 THEN "Accepts12" ELSE "Accepts16"
Locks(of) == IF of = "image" THEN "ImageLocks" ELSE "ProfileLocks"

(* A command.  `silent' are the exits at which it prints no header though  *)
(* asked to, `chatty' that every -k prints one, `value' the header of a    *)
(* further test of its values.  `level' is what a command does that asks   *)
(* for the level of SMAPI and is not told: "plain" says so in text alone,  *)
(* "header" prints a header as well, "ignored" goes on.                    *)
NoTest == -1
Command(api, tail, options) ==
  [api |-> api, tail |-> tail, options |-> options, silent |-> {},
   chatty |-> FALSE, level |-> "none", value |-> NoTest]

Silent(exits, cmd) == [cmd EXCEPT !.silent = exits]
Chatty(cmd) == [cmd EXCEPT !.chatty = TRUE]
AsksLevel(how, cmd) == [cmd EXCEPT !.level = how]
ValueTest(header, cmd) == [cmd EXCEPT !.value = header]

-----------------------------------------------------------------------------

(* smcliAsynchronous.c *)
asynchronousNotificationDisableDM ==
  Command("smAsynchronous_Notification_Disable_DM", Result,
    <<Text("T", "targetIdentifier"), Number("t", "entity_type"),
      Number("c", "communication_type"), Number("p", "port_number"), Text("i", "ip_address"),
      Number("e", "encoding"), Empty("s", "subscriber_data")>>)
asynchronousNotificationEnableDM ==
  Command("smAsynchronous_Notification_Enable_DM", Result,
    <<Text("T", "targetIdentifier"), Number("t", "entity_type"),
      Number("r", "subscription_type"), Number("c", "communication_type"),
      Number("p", "port_number"), Text("i", "ip_address"), Number("e", "encoding"),
      Empty("s", "subscriber_data")>>)
asynchronousNotificationQueryDM ==
  Command("smAsynchronous_Notification_Query_DM", Result,
    <<Text("T", "targetIdentifier"), Number("t", "entity_type"),
      Number("c", "communication_type"), Number("p", "port_number"), Empty("i", "ip_address"),
      Number("e", "encoding"), Empty("s", "subscriber_data")>>)

(* smcliAuthorization.c *)
authorizationListAdd ==
  Command("smAuthorization_List_Add", Result,
    <<Text("T", "targetIdentifier"), Text("i", "for_id"), Text("f", "function_id")>>)
authorizationListQuery ==
  Command("smAuthorization_List_Query", Result,
    <<Empty("T", "targetIdentifier"), Empty("i", "for_id"), Empty("f", "function_id")>>)
authorizationListRemove ==
  Command("smAuthorization_List_Remove", Result,
    <<Text("T", "targetIdentifier"), Text("i", "for_id"), Text("f", "function_id")>>)

(* smcliCheck.c *)
checkAuthentication ==
  Command("smCheck_Authentication", Result,
    <<Text("u", "userid"), Text("p", "password")>>)

(* smcliDelete.c *)
deleteABENDDump ==
  ValueTest(24, Command("smDelete_ABEND_Dump", Result,
    <<Text("T", "targetIdentifier"), KeyList("k", 1)>>))

(* smcliDirectory.c *)
directoryManagerLocalTagDefineDM ==
  Command("smDirectory_Manager_Local_Tag_Define_DM", Result,
    <<Text("T", "targetIdentifier"), Text("n", "tag_name"), Nonzero("o", "tag_ordinal"),
      Nonzero("a", "createOrChange")>>)
directoryManagerLocalTagDeleteDM ==
  Command("smDirectory_Manager_Local_Tag_Delete_DM", Result,
    <<Text("T", "targetIdentifier"), Text("n", "tag_name")>>)
directoryManagerLocalTagQueryDM ==
  Command("smDirectory_Manager_Local_Tag_Query_DM", Result,
    <<Text("T", "targetIdentifier"), Text("n", "tag_name")>>)
directoryManagerLocalTagSetDM ==
  Command("smDirectory_Manager_Local_Tag_Set_DM", Result,
    <<Text("T", "targetIdentifier"), Text("n", "tag_name"), Text("v", "tag_value")>>)
directoryManagerSearchDM ==
  Command("smDirectory_Manager_Search_DM", Result,
    <<Text("T", "targetIdentifier"), Text("s", "search_pattern")>>)
directoryManagerTaskCancelDM ==
  Command("smDirectory_Manager_Task_Cancel_DM", Result,
    <<Text("T", "targetIdentifier"), Nonzero("i", "operation_id")>>)

(* smcliEvent.c *)
eventStreamAdd ==
  Silent({"value"}, ValueTest(24, Command("smEvent_Stream_Add", Result,
    <<Text("T", "targetIdentifier"), KeyList("d", 1), Text("e", "eventId")>>)))

(* smcliImage.c *)
imageActivate == Command("smImage_Activate", Activating, <<Text("T", "targetIdentifier")>>)
imageActiveConfigurationQuery ==
  Command("smImage_Active_Configuration_Query", Result,
    <<Text("T", "targetIdentifier")>>)
imageCPUDefine ==
  Command("smImage_CPU_Define", Result,
    <<Text("T", "targetIdentifier"), Text("v", "cpuAddress"), Number("t", "cpuType")>>)
imageCPUDefineDM ==
  AsksLevel("header", Command("smImage_CPU_Define_DM", Result,
    <<Text("T", "targetIdentifier"), Text("v", "cpuAddress"), Number("b", "baseCpu"),
      Empty("c", "cpuId"), Number("d", "dedicateCpu"), Plain("y", "cryptoCpu")>>))
imageCPUDelete ==
  Command("smImage_CPU_Delete", Result,
    <<Text("T", "targetIdentifier"), Text("v", "cpuAddress")>>)
imageCPUDeleteDM ==
  Command("smImage_CPU_Delete_DM", Result,
    <<Text("T", "targetIdentifier"), Text("v", "cpuAddress")>>)
imageCPUQuery == Command("smImage_CPU_Query", Result, <<Text("T", "targetIdentifier")>>)
imageCPUQueryDM ==
  Command("smImage_CPU_Query_DM", Result,
    <<Text("T", "targetIdentifier"), Text("v", "cpuAddress")>>)
imageCPUSetMaximumDM ==
  Command("smImage_CPU_Set_Maximum_DM", Result,
    <<Text("T", "targetIdentifier"), Nonzero("m", "maxCpus")>>)
imageDeactivate ==
  Command("smImage_Deactivate", Deactivating,
    <<Text("T", "targetIdentifier"), Empty("f", "forceTime")>>)
imageDeleteDM ==
  Command("smImage_Delete_DM", Async,
    <<Text("T", "targetIdentifier"), Number("e", "dataSecurityErase")>>)
imageDeviceDedicate ==
  ValueTest(24, Command("smImage_Device_Dedicate", Result,
    <<Text("T", "targetIdentifier"), Text("v", "imageDeviceNumber"),
      Text("r", "realDeviceNumber"), Plain("R", "readonly")>>))
imageDeviceDedicateDM ==
  ValueTest(24, Command("smImage_Device_Dedicate_DM", Result,
    <<Text("T", "targetIdentifier"), Text("v", "imageDeviceNumber"),
      Text("r", "realDeviceNumber"), Plain("R", "readonly")>>))
imageDeviceReset ==
  Command("smImage_Device_Reset", Result,
    <<Text("T", "targetIdentifier"), Text("v", "imageDeviceNumber")>>)
imageDeviceUndedicate ==
  Command("smImage_Device_Undedicate", Result,
    <<Text("T", "targetIdentifier"), Text("v", "imageDeviceNumber")>>)
imageDeviceUndedicateDM ==
  Command("smImage_Device_Undedicate_DM", Result,
    <<Text("T", "targetIdentifier"), Text("v", "imageDeviceNumber")>>)
imageDiskCopy ==
  Command("smImage_Disk_Copy", Result,
    <<Text("T", "targetIdentifier"), Text("v", "imageDiskNumber")>>)
imageDiskCopyDM ==
  Command("smImage_Disk_Copy_DM", Async,
    <<Text("T", "targetIdentifier"), Text("t", "imageDiskNumber"),
      Text("S", "sourceImageName"), Text("s", "sourceImageDiskNumber"),
      Empty("a", "imageDiskAllocationType"), Empty("n", "allocationAreaName"),
      Empty("m", "imageDiskMode"), Empty("r", "readPassword"), Empty("w", "writePassword"),
      Empty("x", "multiPassword")>>)
imageDiskCreate ==
  Command("smImage_Disk_Create", Result,
    <<Text("T", "targetIdentifier"), Text("v", "imageDiskNumber"), Text("m", "imageDiskMode")>>)
imageDiskCreateDM ==
  Command("smImage_Disk_Create_DM", Async,
    <<Text("T", "targetIdentifier"), Unset("v", "imageDiskNumber"),
      Unset("t", "imageDiskDeviceType"), Unset("a", "imageDiskAllocationType"),
      Unset("r", "allocationAreaNameOrVolser"), Nonzero("u", "allocationUnitSize"),
      Nonzero("z", "imageDiskSize"), Unset("m", "imageDiskMode"),
      Plain("f", "imageDiskFormatting"), Empty("l", "imageDiskLabel"),
      Empty("R", "readPassword"), Empty("W", "writePassword"), Empty("M", "multiPassword")>>)
imageDiskDelete ==
  Command("smImage_Disk_Delete", Result,
    <<Text("T", "targetIdentifier"), Text("v", "imageDiskNumber")>>)
imageDiskDeleteDM ==
  Command("smImage_Disk_Delete_DM", Async,
    <<Text("T", "targetIdentifier"), Text("v", "imageDiskNumber"),
      Number("e", "dataSecurityErase")>>)
imageDiskQuery ==
  Command("smImage_Disk_Query", Result,
    <<Text("T", "targetIdentifier"), KeyList("k", 1)>>)
imageDiskShare ==
  Command("smImage_Disk_Share", Result,
    <<Text("T", "targetIdentifier"), Text("v", "imageDiskNumber"),
      Text("t", "targetImageName"), Text("r", "targetImageDiskNumber"),
      Text("a", "readWriteMode"), Empty("p", "optionalPassword")>>)
imageDiskShareDM ==
  Command("smImage_Disk_Share_DM", Result,
    <<Text("T", "targetIdentifier"), Text("v", "imageDiskNumber"),
      Text("t", "targetImageName"), Text("r", "targetImageDiskNumber"),
      Text("a", "readWriteMode"), Empty("p", "optionalPassword")>>)
imageDiskUnshare ==
  Command("smImage_Disk_Unshare", Result,
    <<Text("T", "targetIdentifier"), Text("v", "imageDiskNumber")>>)
imageDiskUnshareDM ==
  Command("smImage_Disk_Unshare_DM", Result,
    <<Text("T", "targetIdentifier"), Text("v", "imageDiskNumber"),
      Text("t", "targetImageName"), Text("r", "targetImageDiskNumber")>>)
imageIPLDeleteDM ==
  Command("smImage_IPL_Delete_DM", Result,
    <<Text("T", "targetIdentifier")>>)
imageIPLQueryDM ==
  Command("smImage_IPL_Query_DM", Result,
    <<Text("T", "targetIdentifier")>>)
imageIPLSetDM ==
  Command("smImage_IPL_Set_DM", Result,
    <<Text("T", "targetIdentifier"), Empty("s", "savedSystem"), Empty("l", "loadParameter"),
      Empty("p", "parameterString")>>)
imageLockDM ==
  Command("smImage_Lock_DM", Result,
    <<Text("T", "targetIdentifier"), Empty("v", "deviceAddress")>>)
imageLockQueryDM ==
  Command("smImage_Lock_Query_DM", Locks("image"),
    <<Text("T", "targetIdentifier")>>)
imageMDISKLinkQuery ==
  Command("smImage_MDISK_Link_Query", Listing,
    <<Text("T", "targetIdentifier"), Text("k", "vdev")>>)
imageNameQueryDM ==
  Command("smImage_Name_Query_DM", Result,
    <<Literal("targetIdentifier", 6)>>)
imagePasswordSetDM ==
  Command("smImage_Password_Set_DM", Result,
    <<Text("T", "targetIdentifier"), Unset("p", "imagePassword")>>)
imagePause ==
  ValueTest(25, Command("smImage_Pause", Result,
    <<Text("T", "targetIdentifier"), Unset("k", "imagePauseOrBegin")>>))
imageQueryActivateTime ==
  Command("smImage_Query_Activate_Time", Result,
    <<Text("T", "targetIdentifier"), Nonzero("f", "dateFormat")>>)
imageQueryDM == Command("smImage_Query_DM", Result, <<Text("T", "targetIdentifier")>>)
imageRecycle == Command("smImage_Recycle", Result, <<Text("T", "targetIdentifier")>>)
imageSCSICharacteristicsDefineDM ==
  ValueTest(24, Command("smImage_SCSI_Characteristics_Define_DM", Result,
    <<Text("T", "targetIdentifier"), Empty("b", "bootProgram"), Empty("k", "brLba"),
      Empty("l", "lun"), Empty("p", "portName"), Number("s", "scpDatatype"),
      Empty("d", "scpData")>>))
imageSCSICharacteristicsQueryDM ==
  Command("smImage_SCSI_Characteristics_Query_DM", Result,
    <<Text("T", "targetIdentifier")>>)
imageStatusQuery ==
  Command("smImage_Status_Query", Result,
    <<Text("T", "targetIdentifier")>>)
imageUnlockDM ==
  Command("smImage_Unlock_DM", Result,
    <<Text("T", "targetIdentifier"), Empty("v", "deviceAddress")>>)
imageVolumeAdd ==
  Command("smImage_Volume_Add", Result,
    <<Text("T", "targetIdentifier"), Unset("v", "imageDeviceNumer"),
      Unset("l", "imageVolumeLabel"), Unset("s", "systemConfigName"),
      Unset("t", "systemConfigType"), Unset("o", "parmDiskOwner"),
      Unset("p", "parmDiskNumber"), Unset("w", "parmDiskPassword"),
      Unset("c", "altSystemConfigName"), Unset("y", "altSystemConfigType"),
      Unset("n", "altParmDiskOwner"), Unset("m", "altParmDiskNumber"),
      Unset("x", "altParmDiskPassword")>>)
imageVolumeDelete ==
  Command("smImage_Volume_Delete", Result,
    <<Text("T", "targetIdentifier"), Unset("v", "imageDeviceNumer"),
      Unset("l", "imageVolumeLabel"), Unset("s", "systemConfigName"),
      Unset("t", "systemConfigType"), Unset("o", "parmDiskOwner"),
      Unset("p", "parmDiskNumber"), Unset("w", "parmDiskPassword"),
      Unset("c", "altSystemConfigName"), Unset("y", "altSystemConfigType"),
      Unset("n", "altParmDiskOwner"), Unset("m", "altParmDiskNumber"),
      Unset("x", "altParmDiskPassword")>>)
imageVolumeShare ==
  ValueTest(24, Command("smImage_Volume_Share", Result,
    <<Text("T", "targetIdentifier"), KeyList("k", 1)>>))
imageVolumeSpaceDefineDM ==
  ValueTest(24, Command("smImage_Volume_Space_Define_DM", Result,
    <<Text("T", "targetIdentifier"), Nonzero("f", "functionType"), Text("g", "regionName"),
      Empty("v", "imageVolumeId"), Plain("s", "startCyl"), Plain("z", "regionSize"),
      Empty("p", "groupName"), Plain("y", "deviceType")>>))
imageVolumeSpaceDefineExtendedDM ==
  Command("smImage_Volume_Space_Define_Extended_DM", Result,
    <<Text("T", "targetIdentifier"), KeyList("k", 3)>>)
imageVolumeSpaceQueryDM ==
  Command("smImage_Volume_Space_Query_DM", Result,
    <<Text("T", "targetIdentifier"), Nonzero("q", "queryType"), Nonzero("e", "entryType"),
      Empty("n", "entryNames")>>)
imageVolumeSpaceQueryExtendedDM ==
  Command("smImage_Volume_Space_Query_Extended_DM", Result,
    <<Text("T", "targetIdentifier"), KeyList("k", 2)>>)
imageVolumeSpaceRemoveDM ==
  Command("smImage_Volume_Space_Remove_DM", Result,
    <<Text("T", "targetIdentifier"), Nonzero("f", "functionType"), Empty("r", "regionName"),
      Empty("v", "imageVolumeId"), Empty("g", "groupName")>>)
imageConsoleGet ==
  Command("smImage_Console_Get", Result,
    <<Text("T", "targetIdentifier")>>)

(* smcliImageDefinition.c *)
imageDefinitionAsyncUpdates ==
  Command("smImage_Definition_Async_Updates", Result,
    <<Text("T", "targetIdentifier"), KeyList("k", 1)>>)
imageDefinitionCreateDM ==
  Command("smImage_Definition_Create_DM", Result,
    <<Text("T", "targetIdentifier"), KeyList("k", 1)>>)
imageDefinitionDeleteDM ==
  Command("smImage_Definition_Delete_DM", Result,
    <<Text("T", "targetIdentifier"), KeyList("k", 1)>>)
imageDefinitionQueryDM ==
  AsksLevel("plain", Command("smImage_Definition_Query_DM", Result,
    <<Text("T", "targetIdentifier"), Text("k", "keywordlist")>>))
imageDefinitionUpdateDM ==
  Command("smImage_Definition_Update_DM", Result,
    <<Text("T", "targetIdentifier"), KeyList("k", 1)>>)

(* smcliMetadata.c *)
metadataDelete ==
  Command("smMetadataDelete", Result,
    <<Text("T", "targetIdentifier"), Text("k", "keywordlist")>>)
metadataGet ==
  Command("smMetadataGet", Result,
    <<Text("T", "targetIdentifier"), Text("k", "keywordlist")>>)
metadataSpaceQuery ==
  Command("smMetadataSpaceQuery", Result,
    <<Text("T", "targetIdentifier"), Text("k", "keywordlist")>>)

(* smcliName.c *)
nameListAdd ==
  Command("smName_List_Add", Accepting(12),
    <<Text("T", "targetIdentifier"), Text("n", "name")>>)
nameListDestroy ==
  Command("smName_List_Destroy", Result,
    <<Text("T", "targetIdentifier")>>)
nameListQuery == Command("smName_List_Query", Result, <<Text("T", "targetIdentifier")>>)
nameListRemove ==
  Command("smName_List_Remove", Accepting(16),
    <<Text("T", "targetIdentifier"), Text("n", "name")>>)

(* smcliNetwork.c *)
networkIpInterfaceCreate ==
  Command("smNetwork_IP_Interface_Create", Result,
    <<Text("T", "targetIdentifier"), Keys("k", 15, 15, 6)>>)
networkIpInterfaceModify ==
  Command("smNetwork_IP_Interface_Modify", Result,
    <<Text("T", "targetIdentifier"), Keys("k", 4, 4, 3)>>)
networkIpInterfaceQuery ==
  Command("smNetwork_IP_Interface_Query", Result,
    <<Text("T", "targetIdentifier"), Keys("k", 3, 3, 1)>>)
networkIpInterfaceRemove ==
  Command("smNetwork_IP_Interface_Remove", Result,
    <<Text("T", "targetIdentifier"), Keys("k", 4, 4, 3)>>)

(* smcliPage.c *)
pageorSpoolVolumeAdd ==
  Command("smPage_or_Spool_Volume_Add", Result,
    <<Text("T", "targetIdentifier"), Keys("k", 8, 8, 3)>>)

(* smcliProcess.c *)
processABENDDump ==
  Chatty(Command("smProcess_ABEND_Dump", Result,
    <<Text("T", "targetIdentifier"), Keys("k", 1, 1, 1)>>))

(* smcliProfile.c *)
profileDeleteDM ==
  Command("smProfile_Delete_DM", Result,
    <<Text("T", "targetIdentifier")>>)
profileLockDM == Command("smProfile_Lock_DM", Result, <<Text("T", "targetIdentifier")>>)
profileLockQueryDM ==
  Command("smProfile_Lock_Query_DM", Locks("profile"),
    <<Text("T", "targetIdentifier")>>)
profileQueryDM == Command("smProfile_Query_DM", Result, <<Text("T", "targetIdentifier")>>)
profileUnlockDM ==
  Command("smProfile_Unlock_DM", Result,
    <<Text("T", "targetIdentifier")>>)

(* smcliPrototype.c *)
prototypeDeleteDM ==
  Command("smPrototype_Delete_DM", Result,
    <<Text("T", "targetIdentifier")>>)
prototypeNameQueryDM ==
  Command("smPrototype_Name_Query_DM", Result,
    <<Text("T", "targetIdentifier")>>)
prototypeQueryDM ==
  Command("smPrototype_Query_DM", Result,
    <<Text("T", "targetIdentifier")>>)

(* smcliQuery.c *)
queryABENDDump ==
  Command("smQuery_ABEND_Dump", Located,
    <<Text("T", "targetIdentifier"), Keys("k", 1, 1, 1)>>)
queryAPIFunctionalLevel ==
  Command("smQuery_API_Functional_Level", Level,
    <<Text("T", "targetIdentifier")>>)
queryAsynchronousOperationDM ==
  Command("smQuery_Asychronous_Operation_DM", Result,
    <<Text("T", "targetIdentifier"), Number("i", "operationId")>>)
queryDirectoryManagerLevelDM ==
  Command("smQuery_Directory_Manager_Level_DM", Result,
    <<Text("T", "targetIdentifier")>>)

(* smcliResponse.c *)
responseRecovery ==
  Command("smResponse_Recovery", Result,
    <<Text("T", "targetIdentifier"), Nonzero("f", "failedRequestID")>>)

(* smcliSMAPI.c *)
smapiStatusCapture ==
  Command("smSMAPI_Status_Capture", Result,
    <<Text("T", "targetIdentifier")>>)

(* smcliSSI.c *)
ssiQuery == Command("smSSI_Query", Listing, <<>>)

(* smcliShared.c *)
sharedMemoryAccessAddDM ==
  Command("smShared_Memory_Access_Add_DM", Result,
    <<Text("T", "targetIdentifier"), Text("s", "memorySegmentName")>>)
sharedMemoryAccessQueryDM ==
  Command("smShared_Memory_Access_Query_DM", Result,
    <<Text("T", "targetIdentifier"), Text("s", "memorySegmentName")>>)
sharedMemoryAccessRemoveDM ==
  Command("smShared_Memory_Access_Remove_DM", Result,
    <<Text("T", "targetIdentifier"), Text("s", "memorySegmentName")>>)
sharedMemoryCreate ==
  Command("smShared_Memory_Create", Result,
    <<Text("T", "targetIdentifier"), Text("s", "memorySegmentName"), Nonzero("b", "beginPage"),
      Nonzero("e", "endPage"), Nonzero("t", "pageAccessDescriptor"),
      Number("m", "memoryAttributes"), Empty("i", "memoryAccessIdentifier")>>)
sharedMemoryDelete ==
  Command("smShared_Memory_Delete", Result,
    <<Text("T", "targetIdentifier"), Text("s", "memorySegmentName")>>)
sharedMemoryQuery ==
  Command("smShared_Memory_Query", Listing,
    <<Text("T", "targetIdentifier"), Text("s", "memorySegmentName")>>)
sharedMemoryReplace ==
  Command("smShared_Memory_Replace", Result,
    <<Text("T", "targetIdentifier"), Text("s", "memorySegmentName"),
      Text("i", "memoryAccessIdentifier")>>)

(* smcliStatic.c *)
staticImageChangesActivateDM ==
  Command("smStatic_Image_Changes_Activate_DM", Result,
    <<Text("T", "targetIdentifier")>>)
staticImageChangesDeactivateDM ==
  Command("smStatic_Image_Changes_Deactivate_DM", Result,
    <<Text("T", "targetIdentifier")>>)
staticImageChangesImmediateDM ==
  Command("smStatic_Image_Changes_Immediate_DM", Result,
    <<Text("T", "targetIdentifier")>>)

(* smcliSystem.c *)
systemConfigSyntaxCheck ==
  Command("smSystem_Config_Syntax_Check", Result,
    <<Text("T", "targetIdentifier"), Keys("k", 5, 5, 0)>>)
systemDiskAccessibility ==
  Command("smSystem_Disk_Accessibility", Result,
    <<Text("T", "targetIdentifier"), Keys("k", 1, 1, 1)>>)
systemDiskAdd ==
  Command("smSystem_Disk_Add", Result,
    <<Text("T", "targetIdentifier"), Keys("k", 1, 1, 1)>>)
systemDiskQuery ==
  AsksLevel("plain", Command("smSystem_Disk_Query", Listing,
    <<Text("T", "targetIdentifier"), Keys("k", 4, 5, 1)>>))
systemDiskIOQuery ==
  Command("smSystem_Disk_IO_Query", Result,
    <<Text("T", "targetIdentifier"), Keys("k", 1, 1, 0)>>)
systemEQIDQuery ==
  Command("smSystem_EQID_Query", Listing,
    <<Text("T", "targetIdentifier"), Keys("k", 2, 3, 1)>>)
systemFCPFreeQuery ==
  Command("smSystem_FCP_Free_Query", Listing,
    <<Text("T", "targetIdentifier"), Keys("k", 1, 1, 1)>>)
systemInformationQuery ==
  Command("smSystem_Information_Query", Result,
    <<Text("T", "targetIdentifier"), Keys("k", 1, 1, 0)>>)
systemPageUtilizationQuery ==
  Command("smSystem_Page_Utilization_Query", Listing,
    <<Text("T", "targetIdentifier")>>)
systemPerformanceInformationQuery ==
  Command("smSystem_Performance_Information_Query", Result,
    <<Text("T", "targetIdentifier"), Keys("k", 1, 2, 1)>>)
systemPerformanceThresholdDisable ==
  Command("smSystem_Performance_Threshold_Disable", Result,
    <<Text("T", "targetIdentifier"), Text("v", "eventType")>>)
systemPerformanceThresholdEnable ==
  Command("smSystem_Performance_Threshold_Enable", Result,
    <<Text("T", "targetIdentifier"), Text("v", "eventType")>>)
systemProcessorQuery ==
  Command("smSystem_Processor_Query", Result,
    <<Literal("targetIdentifier", 5)>>)
systemSCSIDiskAdd ==
  Silent({"keys"}, Command("smSystem_SCSI_Disk_Add", Result,
    <<Text("T", "targetIdentifier"), Keys("k", 4, 4, 1)>>))
systemSCSIDiskDelete ==
  Silent({"keys"}, Command("smSystem_SCSI_Disk_Delete", Result,
    <<Text("T", "targetIdentifier"), Keys("k", 2, 3, 1)>>))
systemSCSIDiskQuery ==
  Command("smSystem_SCSI_Disk_Query", Listing,
    <<Text("T", "targetIdentifier"), Keys("k", 1, 1, 1)>>)
systemServiceQuery ==
  Command("smSystem_Service_Query", Result,
    <<Text("T", "targetIdentifier"), KeyList("k", 1)>>)
systemShutdown ==
  Silent({"keys"}, Command("smSystem_Shutdown", Result,
    <<Text("T", "targetIdentifier"), Keys("k", 5, 5, 0)>>))
systemSpoolUtilizationQuery ==
  Command("smSystem_Spool_Utilization_Query", Listing,
    <<Text("T", "targetIdentifier")>>)
systemWWPNQuery ==
  AsksLevel("plain", Command("smSystem_WWPN_Query", Listing,
    <<Text("T", "targetIdentifier"), KeyList("k", 0)>>))

(* smcliUnDocumented.c *)
imageIPLDeviceQuery ==
  Command("smImage_IPL_Device_Query", Result,
    <<Text("T", "userid"), NoCase("c")>>)
ipAddrGet == Silent({"ok"}, Command("smIPaddr_Get", Result, <<>>))
systemInfoQuery == Command("smSystem_Info_Query", Result, <<>>)
systemIOQuery ==
  Command("smSystem_IO_Query", Result,
    <<Text("T", "realDeviceAddress"), NoCase("c")>>)
systemPerformanceInfoQuery == Command("smSystem_Performance_Info_Query", Result, <<>>)
virtualNetworkQueryLAN == Command("smVirtual_Network_Query_LAN", Result, <<>>)
virtualNetworkQueryOSA == Command("smVirtual_Network_Query_OSA", Result, <<>>)
virtualNetworkVswitchQueryIUOStats ==
  Command("smVirtual_Network_Vswitch_Query_IUO_Stats", Result,
    <<Text("T", "targetIdentifier"), Keys("k", 1, 1, 1)>>)
xCATCommandsIUO ==
  Command("smXCAT_Commands_IUO", Result,
    <<Text("T", "targetIdentifier"), Text("c", "command")>>)

(* smcliVMRM.c *)
vmrmConfigurationQuery ==
  Command("smVMRM_Configuration_Query", Result,
    <<Text("T", "targetIdentifier"), Text("c", "configurationFileName"),
      Text("t", "configurationFileType"), Text("d", "configurationDirName")>>)
vmrmMeasurementQuery ==
  Command("smVMRM_Measurement_Query", Result,
    <<Text("T", "targetIdentifier")>>)

(* smcliVMRelocate.c *)
vmRelocate ==
  Silent({"keys", "help"}, ValueTest(24, Command("smVMRELOCATE", Result,
    <<Text("T", "targetIdentifier"), Keys("k", 6, 6, 2)>>)))
vmRelocateImageAttributes ==
  Silent({"keys", "help"}, Command("smVMRELOCATE_Image_Attributes", Result,
    <<Text("T", "targetIdentifier"), Keys("k", 3, 3, 1)>>))
vmRelocateModify ==
  Silent({"keys"}, Command("smVMRELOCATE_Modify", Result,
    <<Text("T", "targetIdentifier"), Keys("k", 2, 2, 0)>>))
vmRelocateStatus ==
  Command("smVMRELOCATE_Status", Listing,
    <<Text("T", "targetIdentifier"), Keys("k", 1, 1, 0)>>)

(* smcliVirtual.c *)
virtualChannelConnectionCreate ==
  Command("smVirtual_Channel_Connection_Create", Result,
    <<Text("T", "targetIdentifier"), Text("v", "imageDeviceNumber"),
      Text("c", "coupledImageName"), Text("d", "coupledImageDeviceNumber")>>)
virtualChannelConnectionCreateDM ==
  Command("smVirtual_Channel_Connection_Create_DM", Result,
    <<Text("T", "targetIdentifier"), Text("v", "imageDeviceNumber"),
      Text("c", "coupledImageName")>>)
virtualChannelConnectionDelete ==
  Command("smVirtual_Channel_Connection_Delete", Result,
    <<Text("T", "targetIdentifier"), Text("v", "imageDeviceNumber")>>)
virtualChannelConnectionDeleteDM ==
  Command("smVirtual_Channel_Connection_Delete_DM", Result,
    <<Text("T", "targetIdentifier"), Text("v", "imageDeviceNumber")>>)
virtualNetworkAdapterConnectLAN ==
  Command("smVirtual_Network_Adapter_Connect_LAN", Result,
    <<Text("T", "targetIdentifier"), Text("v", "imageDeviceNumber"), Text("l", "lanName"),
      Text("o", "lanOwner")>>)
virtualNetworkAdapterConnectLANDM ==
  Command("smVirtual_Network_Adapter_Connect_LAN_DM", Result,
    <<Text("T", "targetIdentifier"), Text("v", "imageDeviceNumber"), Unset("n", "lanName"),
      Unset("o", "lanOwner"), NoCase("c"), NoCase("m")>>)
virtualNetworkAdapterConnectVswitch ==
  Command("smVirtual_Network_Adapter_Connect_Vswitch", Result,
    <<Text("T", "targetIdentifier"), Text("v", "imageDeviceNumber"), Unset("n", "switchName")>>)
virtualNetworkAdapterConnectVswitchDM ==
  Command("smVirtual_Network_Adapter_Connect_Vswitch_DM", Result,
    <<Text("T", "targetIdentifier"), Text("v", "imageDeviceNumber"), Text("n", "switchName")>>)
virtualNetworkAdapterConnectVswitchExtended ==
  Command("smVirtual_Network_Adapter_Connect_Vswitch_Extended", Result,
    <<Text("T", "targetIdentifier"), Keys("k", 3, 3, 2)>>)
virtualNetworkAdapterCreate ==
  Command("smVirtual_Network_Adapter_Create", Result,
    <<Text("T", "targetIdentifier"), Text("v", "imageDeviceNumber"),
      Nonzero("t", "adapterType"), Number("d", "networkAdapterDevices")>>)
virtualNetworkAdapterCreateDM ==
  Command("smVirtual_Network_Adapter_Create_DM", Result,
    <<Text("T", "targetIdentifier"), Text("v", "imageDeviceNumber"),
      Nonzero("a", "adapterType"), Nonzero("n", "networkAdapterDevices"),
      Empty("c", "channelPathId"), Empty("m", "macId")>>)
virtualNetworkAdapterCreateExtended ==
  Command("smVirtual_Network_Adapter_Create_Extended", Result,
    <<Text("T", "targetIdentifier"), Keys("k", 4, 4, 1)>>)
virtualNetworkAdapterCreateExtendedDM ==
  Command("smVirtual_Network_Adapter_Create_Extended_DM", Result,
    <<Text("T", "targetIdentifier"), Keys("k", 5, 5, 1)>>)
virtualNetworkAdapterDelete ==
  Command("smVirtual_Network_Adapter_Delete", Result,
    <<Text("T", "targetIdentifier"), Text("v", "imageDeviceNumber")>>)
virtualNetworkAdapterDeleteDM ==
  Command("smVirtual_Network_Adapter_Delete_DM", Result,
    <<Text("T", "targetIdentifier"), Text("v", "imageDeviceNumber")>>)
virtualNetworkAdapterDisconnect ==
  Command("smVirtual_Network_Adapter_Disconnect", Result,
    <<Text("T", "targetIdentifier"), Text("v", "imageDeviceNumber")>>)
virtualNetworkAdapterDisconnectDM ==
  Command("smVirtual_Network_Adapter_Disconnect_DM", Result,
    <<Text("T", "targetIdentifier"), Loose("v", "imageDeviceNumber")>>)
virtualNetworkAdapterQuery ==
  Command("smVirtual_Network_Adapter_Query", Result,
    <<Text("T", "targetIdentifier"), Text("v", "imageDeviceNumber")>>)
virtualNetworkAdapterQueryExtended ==
  Command("smVirtual_Network_Adapter_Query_Extended", Result,
    <<Text("T", "targetIdentifier"), Keys("k", 1, 1, 1)>>)
virtualNetworkLANAccess ==
  Command("smVirtual_Network_LAN_Access", Result,
    <<Text("T", "targetIdentifier"), Text("n", "lanName"), Text("o", "lanOwner"),
      Text("a", "accessOption"), Text("u", "accessGrantName"), Text("p", "promiscuity")>>)
virtualNetworkLANAccessQuery ==
  Command("smVirtual_Network_LAN_Access_Query", Result,
    <<Text("T", "targetIdentifier"), Text("n", "lanName"), Text("o", "lanOwner")>>)
virtualNetworkLANCreate ==
  Command("smVirtual_Network_LAN_Create", Result,
    <<Text("T", "targetIdentifier"), Text("n", "lanName"), Text("o", "lanOwner"),
      Nonzero("t", "lanType"), Number("p", "transportType")>>)
virtualNetworkLANDelete ==
  Command("smVirtual_Network_LAN_Delete", Result,
    <<Text("T", "targetIdentifier"), Text("n", "lanName"), Text("o", "lanOwner")>>)
virtualNetworkLANQuery ==
  Command("smVirtual_Network_LAN_Query", Result,
    <<Text("T", "targetIdentifier"), Text("n", "lanName"), Text("o", "lanOwner")>>)
virtualNetworkOSAQuery ==
  Command("smVirtual_Network_OSA_Query", Listing,
    <<Text("T", "targetIdentifier"), NoCase("n"), NoCase("o")>>)
virtualNetworkVLANQueryStats ==
  Command("smVirtual_Network_VLAN_Query_Stats", Listing,
    <<Text("T", "targetIdentifier"), Keys("k", 4, 4, 2)>>)
virtualNetworkVswitchCreate ==
  Command("smVirtual_Network_Vswitch_Create", Result,
    <<Text("T", "targetIdentifier"), Unset("n", "switchName"), Empty("r", "realDeviceAddress"),
      Empty("a", "portName"), Empty("i", "controllerName"), Plain("c", "connectionValue"),
      Plain("q", "queueMemoryLimit"), Plain("e", "routingValue"), Plain("t", "transportType"),
      Plain("v", "vlanId"), Plain("p", "portType"), Plain("u", "updateSystemConfigIndicator"),
      Empty("L", "systemConfigName"), Empty("F", "systemConfigType"),
      Empty("R", "parmDiskOwner"), Empty("C", "parmDiskNumber"),
      Empty("P", "parmDiskPassword"), Empty("N", "altSystemConfigName"),
      Empty("Y", "altSystemConfigType"), Empty("O", "altParmDiskOwner"),
      Empty("M", "altParmDiskNumber"), Empty("D", "altParmDiskPassword"),
      Plain("G", "gvrpValue"), Plain("V", "nativeVlanId")>>)
virtualNetworkVswitchCreateExtended ==
  Command("smVirtual_Network_Vswitch_Create_Extended", Result,
    <<Text("T", "targetIdentifier"), Keys("k", 16, 16, 1)>>)
virtualNetworkVswitchDelete ==
  Command("smVirtual_Network_Vswitch_Delete", Result,
    <<Text("T", "targetIdentifier"), Empty("n", "switchName"),
      Plain("u", "updateSystemConfigIndicator"), Empty("L", "systemConfigName"),
      Empty("F", "systemConfigType"), Empty("R", "parmDiskOwner"),
      Empty("C", "parmDiskNumber"), Empty("P", "parmDiskPassword"),
      Empty("N", "altSystemConfigName"), Empty("Y", "altSystemConfigType"),
      Empty("O", "altParmDiskOwner"), Empty("M", "altParmDiskNumber"),
      Empty("D", "altParmDiskPassword")>>)
virtualNetworkVswitchDeleteExtended ==
  Command("smVirtual_Network_Vswitch_Delete_Extended", Result,
    <<Text("T", "targetIdentifier"), Keys("k", 2, 2, 1)>>)
virtualNetworkVswitchQuery ==
  Command("smVirtual_Network_Vswitch_Query", Result,
    <<Text("T", "targetIdentifier"), Text("s", "switchName")>>)
virtualNetworkVswitchQueryByteStats ==
  Command("smVirtual_Network_Vswitch_Query_Byte_Stats", Result,
    <<Text("T", "targetIdentifier"), Keys("k", 1, 1, 1)>>)
virtualNetworkVswitchQueryExtended ==
  AsksLevel("ignored", Command("smVirtual_Network_Vswitch_Query_Extended", Listing,
    <<Text("T", "targetIdentifier"), Keys("k", 2, 2, 1)>>))
virtualNetworkVswitchQueryStats ==
  Command("smVirtual_Network_Vswitch_Query_Stats", Listing,
    <<Text("T", "targetIdentifier"), Keys("k", 2, 2, 1)>>)
virtualNetworkVswitchSet ==
  ValueTest(24, Command("smVirtual_Network_Vswitch_Set", Result,
    <<Text("T", "targetIdentifier"), Unset("n", "switchName"), Empty("I", "grantUserid"),
      Empty("v", "userVlanId"), Empty("U", "revokeUserid"), Empty("r", "realDeviceAddress"),
      Empty("a", "portName"), Empty("i", "controllerName"), Plain("c", "connectionValue"),
      Plain("q", "queueMemoryLimit"), Plain("e", "routingValue"), Plain("p", "portType"),
      Plain("u", "updateSystemConfigIndicator"), Empty("L", "systemConfigName"),
      Empty("F", "systemConfigType"), Empty("R", "parmDiskOwner"),
      Empty("C", "parmDiskNumber"), Empty("P", "parmDiskPassword"),
      Empty("N", "altSystemConfigName"), Empty("Y", "altSystemConfigType"),
      Empty("O", "altParmDiskOwner"), Empty("M", "altParmDiskNumber"),
      Empty("D", "altParmDiskPassword"), Plain("G", "gvrpValue"), NoCase("V"),
      Empty("m", "macId")>>))
virtualNetworkVswitchSetExtended ==
  Command("smVirtual_Network_Vswitch_Set_Extended", Result,
    <<Text("T", "targetIdentifier"), Keys("k", 33, 33, 1)>>)

-----------------------------------------------------------------------------
(* main: the name of the API to the function that serves it. *)
Dispatch ==
  [Asynchronous_Notification_Disable_DM |-> asynchronousNotificationDisableDM,
   Asynchronous_Notification_Enable_DM |-> asynchronousNotificationEnableDM,
   Asynchronous_Notification_Query_DM |-> asynchronousNotificationQueryDM,
   Authorization_List_Add |-> authorizationListAdd,
   Authorization_List_Query |-> authorizationListQuery,
   Authorization_List_Remove |-> authorizationListRemove,
   Check_Authentication |-> checkAuthentication, Delete_ABEND_Dump |-> deleteABENDDump,
   Directory_Manager_Local_Tag_Define_DM |-> directoryManagerLocalTagDefineDM,
   Directory_Manager_Local_Tag_Delete_DM |-> directoryManagerLocalTagDeleteDM,
   Directory_Manager_Local_Tag_Query_DM |-> directoryManagerLocalTagQueryDM,
   Directory_Manager_Local_Tag_Set_DM |-> directoryManagerLocalTagSetDM,
   Directory_Manager_Search_DM |-> directoryManagerSearchDM,
   Directory_Manager_Task_Cancel_DM |-> directoryManagerTaskCancelDM,
   Event_Stream_Add |-> eventStreamAdd, Image_Activate |-> imageActivate,
   Image_Active_Configuration_Query |-> imageActiveConfigurationQuery,
   Image_CPU_Define |-> imageCPUDefine, Image_CPU_Define_DM |-> imageCPUDefineDM,
   Image_CPU_Delete |-> imageCPUDelete, Image_CPU_Delete_DM |-> imageCPUDeleteDM,
   Image_CPU_Query |-> imageCPUQuery, Image_CPU_Query_DM |-> imageCPUQueryDM,
   Image_CPU_Set_Maximum_DM |-> imageCPUSetMaximumDM, Image_Console_Get |-> imageConsoleGet,
   Image_Deactivate |-> imageDeactivate,
   Image_Definition_Async_Updates |-> imageDefinitionAsyncUpdates,
   Image_Definition_Create_DM |-> imageDefinitionCreateDM,
   Image_Definition_Delete_DM |-> imageDefinitionDeleteDM,
   Image_Definition_Query_DM |-> imageDefinitionQueryDM,
   Image_Definition_Update_DM |-> imageDefinitionUpdateDM, Image_Delete_DM |-> imageDeleteDM,
   Image_Device_Dedicate |-> imageDeviceDedicate,
   Image_Device_Dedicate_DM |-> imageDeviceDedicateDM,
   Image_Device_Reset |-> imageDeviceReset,
   Image_Device_Undedicate |-> imageDeviceUndedicate,
   Image_Device_Undedicate_DM |-> imageDeviceUndedicateDM, Image_Disk_Copy |-> imageDiskCopy,
   Image_Disk_Copy_DM |-> imageDiskCopyDM, Image_Disk_Create |-> imageDiskCreate,
   Image_Disk_Create_DM |-> imageDiskCreateDM, Image_Disk_Delete |-> imageDiskDelete,
   Image_Disk_Delete_DM |-> imageDiskDeleteDM, Image_Disk_Query |-> imageDiskQuery,
   Image_Disk_Share |-> imageDiskShare, Image_Disk_Share_DM |-> imageDiskShareDM,
   Image_Disk_Unshare |-> imageDiskUnshare, Image_Disk_Unshare_DM |-> imageDiskUnshareDM,
   Image_IPL_Delete_DM |-> imageIPLDeleteDM, Image_IPL_Device_Query |-> imageIPLDeviceQuery,
   Image_IPL_Query_DM |-> imageIPLQueryDM, Image_IPL_Set_DM |-> imageIPLSetDM,
   Image_Lock_DM |-> imageLockDM, Image_Lock_Query_DM |-> imageLockQueryDM,
   Image_MDISK_Link_Query |-> imageMDISKLinkQuery, Image_Name_Query_DM |-> imageNameQueryDM,
   Image_Password_Set_DM |-> imagePasswordSetDM, Image_Pause |-> imagePause,
   Image_Query_Activate_Time |-> imageQueryActivateTime, Image_Query_DM |-> imageQueryDM,
   Image_Recycle |-> imageRecycle,
   Image_SCSI_Characteristics_Define_DM |-> imageSCSICharacteristicsDefineDM,
   Image_SCSI_Characteristics_Query_DM |-> imageSCSICharacteristicsQueryDM,
   Image_Status_Query |-> imageStatusQuery, Image_Unlock_DM |-> imageUnlockDM,
   Image_Volume_Add |-> imageVolumeAdd, Image_Volume_Delete |-> imageVolumeDelete,
   Image_Volume_Share |-> imageVolumeShare,
   Image_Volume_Space_Define_DM |-> imageVolumeSpaceDefineDM,
   Image_Volume_Space_Define_Extended_DM |-> imageVolumeSpaceDefineExtendedDM,
   Image_Volume_Space_Query_DM |-> imageVolumeSpaceQueryDM,
   Image_Volume_Space_Query_Extended_DM |-> imageVolumeSpaceQueryExtendedDM,
   Image_Volume_Space_Remove_DM |-> imageVolumeSpaceRemoveDM, IPaddr_Get |-> ipAddrGet,
   Metadata_Delete |-> metadataDelete, Metadata_Get |-> metadataGet,
   Metadata_Space_Query |-> metadataSpaceQuery, Name_List_Add |-> nameListAdd,
   Name_List_Destroy |-> nameListDestroy, Name_List_Query |-> nameListQuery,
   Name_List_Remove |-> nameListRemove,
   Network_IP_Interface_Create |-> networkIpInterfaceCreate,
   Network_IP_Interface_Modify |-> networkIpInterfaceModify,
   Network_IP_Interface_Query |-> networkIpInterfaceQuery,
   Network_IP_Interface_Remove |-> networkIpInterfaceRemove,
   Page_or_Spool_Volume_Add |-> pageorSpoolVolumeAdd,
   Process_ABEND_Dump |-> processABENDDump, Profile_Delete_DM |-> profileDeleteDM,
   Profile_Lock_DM |-> profileLockDM, Profile_Lock_Query_DM |-> profileLockQueryDM,
   Profile_Query_DM |-> profileQueryDM, Profile_Unlock_DM |-> profileUnlockDM,
   Prototype_Delete_DM |-> prototypeDeleteDM,
   Prototype_Name_Query_DM |-> prototypeNameQueryDM, Prototype_Query_DM |-> prototypeQueryDM,
   Query_ABEND_Dump |-> queryABENDDump,
   Query_API_Functional_Level |-> queryAPIFunctionalLevel,
   Query_Asynchronous_Operation_DM |-> queryAsynchronousOperationDM,
   Query_Directory_Manager_Level_DM |-> queryDirectoryManagerLevelDM,
   Response_Recovery |-> responseRecovery,
   Shared_Memory_Access_Add_DM |-> sharedMemoryAccessAddDM,
   Shared_Memory_Access_Query_DM |-> sharedMemoryAccessQueryDM,
   Shared_Memory_Access_Remove_DM |-> sharedMemoryAccessRemoveDM,
   Shared_Memory_Create |-> sharedMemoryCreate, Shared_Memory_Delete |-> sharedMemoryDelete,
   Shared_Memory_Query |-> sharedMemoryQuery, Shared_Memory_Replace |-> sharedMemoryReplace,
   SMAPI_Status_Capture |-> smapiStatusCapture, SSI_Query |-> ssiQuery,
   Static_Image_Changes_Activate_DM |-> staticImageChangesActivateDM,
   Static_Image_Changes_Deactivate_DM |-> staticImageChangesDeactivateDM,
   Static_Image_Changes_Immediate_DM |-> staticImageChangesImmediateDM,
   System_Config_Syntax_Check |-> systemConfigSyntaxCheck,
   System_Disk_Accessibility |-> systemDiskAccessibility, System_Disk_Add |-> systemDiskAdd,
   System_Disk_IO_Query |-> systemDiskIOQuery, System_Disk_Query |-> systemDiskQuery,
   System_EQID_Query |-> systemEQIDQuery, System_FCP_Free_Query |-> systemFCPFreeQuery,
   System_Info_Query |-> systemInfoQuery,
   System_Information_Query |-> systemInformationQuery, System_IO_Query |-> systemIOQuery,
   System_Page_Utilization_Query |-> systemPageUtilizationQuery,
   System_Performance_Info_Query |-> systemPerformanceInfoQuery,
   System_Performance_Information_Query |-> systemPerformanceInformationQuery,
   System_Performance_Threshold_Disable |-> systemPerformanceThresholdDisable,
   System_Performance_Threshold_Enable |-> systemPerformanceThresholdEnable,
   System_Processor_Query |-> systemProcessorQuery,
   System_SCSI_Disk_Add |-> systemSCSIDiskAdd,
   System_SCSI_Disk_Delete |-> systemSCSIDiskDelete,
   System_SCSI_Disk_Query |-> systemSCSIDiskQuery,
   System_Service_Query |-> systemServiceQuery, System_Shutdown |-> systemShutdown,
   System_Spool_Utilization_Query |-> systemSpoolUtilizationQuery,
   System_WWPN_Query |-> systemWWPNQuery,
   Virtual_Channel_Connection_Create |-> virtualChannelConnectionCreate,
   Virtual_Channel_Connection_Create_DM |-> virtualChannelConnectionCreateDM,
   Virtual_Channel_Connection_Delete |-> virtualChannelConnectionDelete,
   Virtual_Channel_Connection_Delete_DM |-> virtualChannelConnectionDeleteDM,
   Virtual_Network_Adapter_Connect_LAN |-> virtualNetworkAdapterConnectLAN,
   Virtual_Network_Adapter_Connect_LAN_DM |-> virtualNetworkAdapterConnectLANDM,
   Virtual_Network_Adapter_Connect_Vswitch |-> virtualNetworkAdapterConnectVswitch,
   Virtual_Network_Adapter_Connect_Vswitch_DM |-> virtualNetworkAdapterConnectVswitchDM,
   Virtual_Network_Adapter_Connect_Vswitch_Extended |-> virtualNetworkAdapterConnectVswitchExtended,
   Virtual_Network_Adapter_Create |-> virtualNetworkAdapterCreate,
   Virtual_Network_Adapter_Create_DM |-> virtualNetworkAdapterCreateDM,
   Virtual_Network_Adapter_Create_Extended |-> virtualNetworkAdapterCreateExtended,
   Virtual_Network_Adapter_Create_Extended_DM |-> virtualNetworkAdapterCreateExtendedDM,
   Virtual_Network_Adapter_Delete |-> virtualNetworkAdapterDelete,
   Virtual_Network_Adapter_Delete_DM |-> virtualNetworkAdapterDeleteDM,
   Virtual_Network_Adapter_Disconnect |-> virtualNetworkAdapterDisconnect,
   Virtual_Network_Adapter_Disconnect_DM |-> virtualNetworkAdapterDisconnectDM,
   Virtual_Network_Adapter_Query |-> virtualNetworkAdapterQuery,
   Virtual_Network_Adapter_Query_Extended |-> virtualNetworkAdapterQueryExtended,
   Virtual_Network_LAN_Access |-> virtualNetworkLANAccess,
   Virtual_Network_LAN_Access_Query |-> virtualNetworkLANAccessQuery,
   Virtual_Network_LAN_Create |-> virtualNetworkLANCreate,
   Virtual_Network_LAN_Delete |-> virtualNetworkLANDelete,
   Virtual_Network_LAN_Query |-> virtualNetworkLANQuery,
   Virtual_Network_OSA_Query |-> virtualNetworkOSAQuery,
   Virtual_Network_Query_LAN |-> virtualNetworkQueryLAN,
   Virtual_Network_Query_OSA |-> virtualNetworkQueryOSA,
   Virtual_Network_VLAN_Query_Stats |-> virtualNetworkVLANQueryStats,
   Virtual_Network_Vswitch_Create |-> virtualNetworkVswitchCreate,
   Virtual_Network_Vswitch_Create_Extended |-> virtualNetworkVswitchCreateExtended,
   Virtual_Network_Vswitch_Delete |-> virtualNetworkVswitchDelete,
   Virtual_Network_Vswitch_Delete_Extended |-> virtualNetworkVswitchDeleteExtended,
   Virtual_Network_Vswitch_Query |-> virtualNetworkVswitchQuery,
   Virtual_Network_Vswitch_Query_Byte_Stats |-> virtualNetworkVswitchQueryByteStats,
   Virtual_Network_Vswitch_Query_Extended |-> virtualNetworkVswitchQueryExtended,
   Virtual_Network_Vswitch_Query_IUO_Stats |-> virtualNetworkVswitchQueryIUOStats,
   Virtual_Network_Vswitch_Query_Stats |-> virtualNetworkVswitchQueryStats,
   Virtual_Network_Vswitch_Set |-> virtualNetworkVswitchSet,
   Virtual_Network_Vswitch_Set_Extended |-> virtualNetworkVswitchSetExtended,
   VMRELOCATE |-> vmRelocate, VMRELOCATE_Image_Attributes |-> vmRelocateImageAttributes,
   VMRELOCATE_Modify |-> vmRelocateModify, VMRELOCATE_Status |-> vmRelocateStatus,
   VMRM_Configuration_Query |-> vmrmConfigurationQuery,
   VMRM_Measurement_Query |-> vmrmMeasurementQuery, xCAT_Commands_IUO |-> xCATCommandsIUO]

(* displayHelpInfo: the names listed only from a level on; every other name *)
(* is listed at every level.                                                *)
Listed611 ==
  {"Event_Stream_Add", "Image_Definition_Delete_DM", "Image_Definition_Query_DM",
   "Image_Definition_Update_DM", "Response_Recovery", "System_Config_Syntax_Check",
   "System_Disk_Add", "System_Disk_Query", "System_SCSI_Disk_Add", "System_SCSI_Disk_Query",
   "System_WWPN_Query", "Virtual_Network_Adapter_Create_Extended",
   "Virtual_Network_Adapter_Create_Extended_DM", "Virtual_Network_OSA_Query",
   "Virtual_Network_Vswitch_Create_Extended", "Virtual_Network_Vswitch_Delete_Extended",
   "Virtual_Network_Vswitch_Set_Extended"}
Listed620 ==
  {"Delete_ABEND_Dump", "Image_Definition_Async_Updates", "Image_Definition_Create_DM",
   "Image_Volume_Share", "Image_Volume_Space_Define_Extended_DM",
   "Image_Volume_Space_Query_Extended_DM", "Metadata_Delete", "Metadata_Get",
   "Page_or_Spool_Volume_Add", "Process_ABEND_Dump", "Query_ABEND_Dump", "SSI_Query",
   "System_Disk_Accessibility", "System_FCP_Free_Query",
   "System_Performance_Threshold_Disable", "System_Performance_Threshold_Enable",
   "System_SCSI_Disk_Delete", "VMRELOCATE", "VMRELOCATE_Image_Attributes",
   "VMRELOCATE_Modify", "VMRELOCATE_Status",
   "Virtual_Network_Adapter_Connect_Vswitch_Extended", "Virtual_Network_VLAN_Query_Stats",
   "Virtual_Network_Vswitch_Query_Extended", "Virtual_Network_Vswitch_Query_Stats"}
Listed630 ==
  {"Image_Lock_Query_DM", "Image_MDISK_Link_Query", "Image_Pause",
   "Network_IP_Interface_Create", "Network_IP_Interface_Modify",
   "Network_IP_Interface_Query", "Network_IP_Interface_Remove", "Profile_Lock_Query_DM",
   "SMAPI_Status_Capture", "System_Disk_IO_Query", "System_EQID_Query",
   "System_Information_Query", "System_Page_Utilization_Query",
   "System_Performance_Information_Query", "System_Service_Query", "System_Shutdown",
   "System_Spool_Utilization_Query", "Virtual_Network_Adapter_Query_Extended",
   "Virtual_Network_Vswitch_Query_IUO_Stats", "xCAT_Commands_IUO"}
Listed640 ==
  {"Image_Console_Get", "Metadata_Space_Query", "Virtual_Network_Vswitch_Query_Byte_Stats"}
Listed720 ==
  {"System_Processor_Query"}
HelpLevel(name) ==
  IF name \in Listed720 THEN 720 ELSE IF name \in Listed640 THEN 640
  ELSE IF name \in Listed630 THEN 630 ELSE IF name \in Listed620 THEN 620
  ELSE IF name \in Listed611 THEN 611 ELSE 0

\* Mutant: a name that the help lists at every level.
RefusesActivate == {"Image_Activate"}

(* main: the names refused below a level. *)
APIS_611 ==
  {"Event_Stream_Add", "Image_Definition_Delete_DM", "Image_Definition_Query_DM",
   "Image_Definition_Update_DM", "Image_Disk_Query", "Response_Recovery",
   "System_Config_Syntax_Check", "System_Disk_Add", "System_Disk_Query",
   "System_SCSI_Disk_Add", "System_SCSI_Disk_Query", "System_WWPN_Query",
   "Virtual_Network_Adapter_Create_Extended", "Virtual_Network_Adapter_Create_Extended_DM",
   "Virtual_Network_OSA_Query"}
APIS_620 ==
  {"Delete_ABEND_Dump", "Image_Definition_Async_Updates", "Image_Definition_Create_DM",
   "Image_Volume_Share", "Image_Volume_Space_Define_Extended_DM",
   "Image_Volume_Space_Query_Extended_DM", "Metadata_Delete", "Metadata_Get",
   "Page_or_Spool_Volume_Add", "Process_ABEND_Dump", "Query_ABEND_Dump", "SSI_Query",
   "System_Disk_Accessibility", "System_FCP_Free_Query", "System_SCSI_Disk_Delete",
   "System_Performance_Threshold_Disable", "System_Performance_Threshold_Enable",
   "Virtual_Network_Adapter_Connect_Vswitch_Extended", "Virtual_Network_VLAN_Query_Stats",
   "Virtual_Network_Vswitch_Query_Extended", "Virtual_Network_Vswitch_Query_Stats",
   "VMRELOCATE", "VMRELOCATE_Image_Attributes", "VMRELOCATE_Modify", "VMRELOCATE_Status"}
APIS_630 ==
  {"Image_Lock_Query_DM", "Image_MDISK_Link_Query", "Image_Pause",
   "Network_IP_Interface_Create", "Network_IP_Interface_Modify",
   "Network_IP_Interface_Query", "Network_IP_Interface_Remove", "Profile_Lock_Query_DM",
   "SMAPI_Status_Capture", "System_Disk_IO_Query", "System_EQID_Query",
   "System_Information_Query", "System_Page_Utilization_Query",
   "System_Performance_Information_Query", "System_Service_Query", "System_Shutdown",
   "System_Spool_Utilization_Query", "Virtual_Network_Adapter_Query_Extended",
   "xCAT_Commands_IUO"}
RefusedAt(name, level) ==
  \/ level < 611 /\ name \in APIS_611
  \/ level < 620 /\ name \in APIS_620
  \/ level < 630 /\ name \in APIS_630
=============================================================================
