---------------------------- MODULE VmapiLayouts ----------------------------
(***************************************************************************)
(* The requests that libzthin builds: one layout per vmapi function.       *)
(*                                                                         *)
(* Every function of the vmapi*.c files has the same shape.  It adds up    *)
(* inputSize from constants, from strlen() of its strings and from a loop  *)
(* over its list; it allocates inputSize bytes; it puts the fields one     *)
(* after the other through a cursor; and it hands the buffer to            *)
(* getAndParseSmapiBuffer.  Nothing in the code ties the sum to the puts,  *)
(* nor the announced size of a list to the entries that follow it: a       *)
(* layout therefore records the two sides separately,                      *)
(*   size   the constant part of the sum,                                  *)
(*   sized  the strings whose strlen() the sum adds,                       *)
(*   each   what the sum adds per list entry beside the entry's length,    *)
(*   fields what is put, in the order it is put.                           *)
(* Strings are abstracted to their lengths, list entries to one common     *)
(* length.                                                                 *)
(***************************************************************************)
EXTENDS Integers, Sequences
LOCAL INSTANCE SequencesExt

(* The length of a string whose pointer is NULL. *)
Null == -1

-----------------------------------------------------------------------------
(* The fields.  A field puts `fixed' bytes, the strings `of', and a list.   *)
Field(n, of) == [fixed |-> n, of |-> of, part |-> "none", per |-> 0]
Part(n, part, per) == [fixed |-> n, of |-> <<>>, part |-> part, per |-> per]

Str(x)   == Field(4, <<x>>)   \* PUT_INT of strlen(x), then its bytes
Blob(x)  == Field(4, <<x>>)   \* PUT_INT of the length the caller gives, then the bytes
CStr(x)  == Field(1, <<x>>)   \* strcpy: the bytes and the terminating zero
Bytes(x) == Field(0, <<x>>)   \* the bytes alone
Byte(x)  == Field(1, <<>>)
Word(x)  == Field(4, <<>>)    \* PUT_INT
Long(x)  == Field(8, <<>>)    \* PUT_64INT
List(n)      == Part(0, "list", n)      \* every entry, with n bytes beside it
LastEntry    == Part(1, "last", 0)      \* the last entry and its zero
Chain(n)     == Part(0, "chain", n)     \* every entry; the length of the next one after it
Announce(n)  == Part(4, "announce", n)  \* PUT_INT of the summed sizes of the entries
Touch        == Part(1, "touch", 0)     \* a byte stored without moving the cursor
Skip(n)      == Part(n, "skip", 0)      \* the cursor moved without storing

(* The layouts.  `spare' is malloc'ed beside inputSize; `marks' is the     *)
(* length of the targetStart array, indexed by the entry plus `offset';    *)
(* `exclusive' are strings that must be empty when the list is not;        *)
(* `errors' is what the function stores in smapiErrorBufferPossible.       *)
Layout(n, sized, each, fields) ==
  [size |-> n, sized |-> sized, each |-> each, fields |-> fields, lists |-> FALSE, spare |-> 0,
   marks |-> Null, offset |-> 0, exclusive |-> <<>>, errors |-> "NO"]

Raw(n, sized, fields) == Layout(n, sized, 0, fields)

RequestHead == <<Str("functionName"), Str("userid"), Blob("password"), Str("targetIdentifier")>>
HeadSized == <<"functionName", "userid", "password", "targetIdentifier">>
HeadSize == 20

Api(n, sized, fields) == Layout(HeadSize + n, HeadSized \o sized, 0, RequestHead \o fields)
ListApi(n, sized, each, fields) ==
  [Layout(HeadSize + n, HeadSized \o sized, each, RequestHead \o fields) EXCEPT !.lists = TRUE]
Marked(n, offset, api) == [api EXCEPT !.marks = n, !.offset = offset]
Errors(how, api) == [api EXCEPT !.errors = how]
Spare(n, api) == [api EXCEPT !.spare = n]
Exclusive(names, api) == [api EXCEPT !.exclusive = names]

-----------------------------------------------------------------------------
(* What a call a, [len: strings -> lengths, count: entries, entry: their   *)
(* length], asks for and puts.                                             *)
Lengths(a, names) == FoldLeft(LAMBDA sum, x : sum + a.len[x], 0, names)

InputSize(api, a) ==
  api.size + Lengths(a, api.sized) +
    (IF ~api.lists THEN 0
     ELSE IF \E i \in 1..Len(api.fields) : api.fields[i].part = "last" THEN api.each + a.entry
     ELSE a.count * (api.each + a.entry))

Announced(f, a) == a.count * (f.per + a.entry)

PutBytes(f, a) ==
  f.fixed + Lengths(a, f.of) +
    CASE f.part = "list"  -> a.count * (f.per + a.entry)
      [] f.part = "last"  -> a.entry
      [] f.part = "chain" -> IF a.count = 0 THEN 0
                             ELSE a.count * (f.per - 4 + a.entry) + 4 * (a.count - 1)
      [] OTHER -> 0

(* The strings a function takes. *)
StringsOf(api) ==
  {api.sized[i] : i \in 1..Len(api.sized)}
    \cup UNION {{api.fields[i].of[j] : j \in 1..Len(api.fields[i].of)} : i \in 1..Len(api.fields)}

-----------------------------------------------------------------------------
(* Authorisation, names, prototypes, profiles, tasks, tags and the server itself. *)
smAsynchronous_Notification_Disable_DM ==
  Api(15, <<"ip_address", "subscriber_data">>,
          <<Byte("entity_type"), Byte("communication_type"), Word("port_number"),
            Str("ip_address"), Byte("encoding"), Blob("subscriber_data")>>)
smAsynchronous_Notification_Enable_DM ==
  Api(16, <<"ip_address", "subscriber_data">>,
          <<Byte("entity_type"), Byte("subscription_type"), Byte("communication_type"),
            Word("port_number"), Str("ip_address"), Byte("encoding"), Blob("subscriber_data")>>)
smAsynchronous_Notification_Query_DM ==
  Api(15, <<"ip_address", "subscriber_data">>,
          <<Byte("entity_type"), Byte("communication_type"), Word("port_number"),
            Str("ip_address"), Byte("encoding"), Blob("subscriber_data")>>)
smAuthorization_List_Add ==
  Api(8, <<"for_id", "function_id">>, <<Str("for_id"), Str("function_id")>>)
smAuthorization_List_Query ==
  Api(8, <<"for_id", "function_id">>, <<Str("for_id"), Str("function_id")>>)
smAuthorization_List_Remove ==
  Api(8, <<"for_id", "function_id">>, <<Str("for_id"), Str("function_id")>>)
smCheck_Authentication ==
  Raw(16, <<"functionName", "userid", "password">>,
          <<Str("functionName"), Str("userid"), Blob("password")>>)
smDelete_ABEND_Dump == ListApi(0, <<>>, 1, <<LastEntry>>)
smDirectory_Manager_Local_Tag_Define_DM ==
  Api(9, <<"tag_name">>, <<Str("tag_name"), Word("tag_ordinal"), Byte("createOrChange")>>)
smDirectory_Manager_Local_Tag_Delete_DM == Api(4, <<"tag_name">>, <<Str("tag_name")>>)
smDirectory_Manager_Local_Tag_Query_DM == Api(4, <<"tag_name">>, <<Str("tag_name")>>)
smDirectory_Manager_Local_Tag_Set_DM ==
  Api(8, <<"tag_name", "tag_value">>, <<Str("tag_name"), Blob("tag_value")>>)
smDirectory_Manager_Search_DM == Api(4, <<"search_pattern">>, <<Blob("search_pattern")>>)
smDirectory_Manager_Task_Cancel_DM == Api(4, <<>>, <<Word("operation_id"), Skip(4)>>)
smEvent_Stream_Add ==
  Errors("WITH_LENGTH_FIELD",
    ListApi(4, <<>>, 0, <<Word("eventId"), List(0)>>))
smEvent_Unsubscribe == Api(0, <<>>, <<>>)
smIPaddr_Get == Raw(6, <<"functionName">>, <<Byte("0xFF"), CStr("functionName")>>)
smMetadataDelete ==
  Errors("WITH_LENGTH_FIELD",
    Api(1, <<"keywordlist">>, <<CStr("keywordlist")>>))
smMetadataGet == Errors("WITH_LENGTH_FIELD", Api(1, <<"keywordlist">>, <<CStr("keywordlist")>>))
smMetadataSet ==
  Errors("WITH_LENGTH_FIELD",
    ListApi(4, <<>>, 12, <<Announce(12), Word("metadataEntryStructureLengths"), Chain(12)>>))
smMetadataSpaceQuery == Api(1, <<"keywordlist">>, <<CStr("keywordlist")>>)
smName_List_Add == Api(4, <<"name">>, <<Str("name")>>)
smName_List_Destroy == Api(0, <<>>, <<>>)
smName_List_Query == Api(0, <<>>, <<>>)
smName_List_Remove == Api(4, <<"name">>, <<Str("name")>>)
smNetwork_IP_Interface_Create == Errors("WITH_LENGTH_FIELD", ListApi(0, <<>>, 1, <<List(1)>>))
smNetwork_IP_Interface_Modify == Errors("WITH_LENGTH_FIELD", ListApi(0, <<>>, 1, <<List(1)>>))
smNetwork_IP_Interface_Query == ListApi(0, <<>>, 1, <<List(1)>>)
smNetwork_IP_Interface_Remove == Errors("WITH_LENGTH_FIELD", ListApi(0, <<>>, 1, <<List(1)>>))
smPage_or_Spool_Volume_Add == Marked(8, 0, ListApi(0, <<>>, 1, <<List(1)>>))
smProcess_ABEND_Dump == Marked(1, 0, ListApi(0, <<>>, 1, <<List(1)>>))
smProfile_Create_DM == Spare(4, ListApi(4, <<>>, 4, <<Announce(4), List(4)>>))
smProfile_Delete_DM == Api(0, <<>>, <<>>)
smProfile_Lock_DM == Api(0, <<>>, <<>>)
smProfile_Lock_Query_DM == Api(0, <<>>, <<>>)
smProfile_Query_DM == Api(0, <<>>, <<>>)
smProfile_Replace_DM == ListApi(4, <<>>, 4, <<Announce(4), List(4)>>)
smProfile_Unlock_DM == Api(0, <<>>, <<>>)
smPrototype_Create_DM == Spare(4, ListApi(4, <<>>, 4, <<Announce(4), List(4)>>))
smPrototype_Delete_DM == Api(0, <<>>, <<>>)
smPrototype_Name_Query_DM == Api(0, <<>>, <<>>)
smPrototype_Query_DM == Api(0, <<>>, <<>>)
smPrototype_Replace_DM == Spare(4, ListApi(4, <<>>, 4, <<Announce(4), List(4)>>))
smQuery_ABEND_Dump == Marked(1, 1, ListApi(0, <<>>, 1, <<List(1)>>))
smQuery_API_Functional_Level == Api(0, <<>>, <<>>)
\* Mutant: the announced size leaves out the zeros.
NoZeros == ListApi(4, <<>>, 1, <<Announce(0), List(1)>>)
smQuery_All_DM_NO == ListApi(4, <<>>, 1, <<Announce(1), List(1)>>)
smQuery_All_DM_YES == ListApi(4, <<>>, 1, <<Announce(1), List(1)>>)
smQuery_Asychronous_Operation_DM == Api(4, <<>>, <<Word("operationId")>>)
smQuery_Directory_Manager_Level_DM == Api(0, <<>>, <<>>)
smResponse_Recovery == Api(4, <<>>, <<Word("failedRequestID")>>)
smSMAPI_Status_Capture == Api(0, <<>>, <<>>)
smSSI_Query ==
  Raw(20, <<"functionName", "ALL">>, <<Str("functionName"), Word("0"), Word("0"), Str("ALL")>>)
smStatic_Image_Changes_Activate_DM == Api(0, <<>>, <<>>)
smStatic_Image_Changes_Deactivate_DM == Api(0, <<>>, <<>>)
smStatic_Image_Changes_Immediate_DM == Api(0, <<>>, <<>>)
smXCAT_Commands_IUO == Errors("WITH_LENGTH_FIELD", Api(4, <<"command">>, <<Bytes("command")>>))

(* Images. *)
smImage_Activate == Api(0, <<>>, <<>>)
smImage_Active_Configuration_Query == Api(0, <<>>, <<>>)
smImage_CPU_Define == Api(5, <<"cpuAddress">>, <<Str("cpuAddress"), Byte("cpuType")>>)
\* Mutant: a word is missing from the sum.
ShortSum ==
  Api(7, <<"cpuAddress", "cpuId">>,
      <<Str("cpuAddress"), Byte("baseCpu"), Str("cpuId"), Byte("dedicateCpu"), Byte("cryptoCpu")>>)
smImage_CPU_Define_DM ==
  Api(11, <<"cpuAddress", "cpuId">>,
          <<Str("cpuAddress"), Byte("baseCpu"), Str("cpuId"), Byte("dedicateCpu"),
            Byte("cryptoCpu")>>)
\* Mutant: an empty string is sent without its length.
NoLength == Api(4, <<"cpuAddress">>, <<Bytes("cpuAddress")>>)
smImage_CPU_Delete == Api(4, <<"cpuAddress">>, <<Str("cpuAddress")>>)
smImage_CPU_Delete_DM == Api(4, <<"cpuAddress">>, <<Str("cpuAddress")>>)
smImage_CPU_Query == Api(0, <<>>, <<>>)
smImage_CPU_Query_DM == Api(4, <<"cpuAddress">>, <<Str("cpuAddress")>>)
smImage_CPU_Set_Maximum_DM == Api(4, <<>>, <<Word("maxCpus")>>)
smImage_Console_Get == Api(0, <<>>, <<>>)
smImage_Create_DM ==
  Spare(4, Exclusive(<<"initialPassword", "initialAccountNumber">>,
    ListApi(16, <<"prototypeName", "initialPassword", "initialAccountNumber">>, 4,
            <<Str("prototypeName"), Blob("initialPassword"), Str("initialAccountNumber"),
              Announce(4), List(4)>>)))
smImage_Deactivate == Api(4, <<"forceTime">>, <<Str("forceTime")>>)
smImage_Definition_Async_Updates == ListApi(0, <<>>, 1, <<List(1)>>)
smImage_Definition_Create_DM ==
  Errors("WITH_LENGTH_FIELD",
    ListApi(4, <<>>, 1, <<Announce(1), List(1)>>))
smImage_Definition_Delete_DM ==
  Errors("WITH_LENGTH_FIELD",
    ListApi(4, <<>>, 1, <<Announce(1), List(1)>>))
smImage_Definition_Query_DM ==
  Errors("WITH_LENGTH_FIELD",
    Api(5, <<"keywordlist">>, <<Word("keywordlistLength"), CStr("keywordlist")>>))
smImage_Definition_Update_DM ==
  Errors("WITH_LENGTH_FIELD",
    ListApi(4, <<>>, 1, <<Announce(1), List(1)>>))
smImage_Delete_DM == Api(1, <<>>, <<Byte("dataSecurityErase")>>)
smImage_Device_Dedicate ==
  Api(9, <<"imageDeviceNumber", "realDeviceNumber">>,
         <<Str("imageDeviceNumber"), Str("realDeviceNumber"), Byte("readonly")>>)
smImage_Device_Dedicate_DM ==
  Api(9, <<"imageDeviceNumber", "realDeviceNumber">>,
         <<Str("imageDeviceNumber"), Str("realDeviceNumber"), Byte("readonly")>>)
smImage_Device_Reset == Api(4, <<"imageDeviceNumber">>, <<Str("imageDeviceNumber")>>)
smImage_Device_Undedicate == Api(4, <<"imageDeviceNumber">>, <<Str("imageDeviceNumber")>>)
smImage_Device_Undedicate_DM == Api(4, <<"imageDeviceNumber">>, <<Str("imageDeviceNumber")>>)
smImage_Disk_Copy == Api(4, <<"imageDiskNumber">>, <<Str("imageDiskNumber")>>)
smImage_Disk_Copy_DM ==
  Api(36, <<"imageDiskNumber", "sourceImageName", "sourceImageDiskNumber",
            "imageDiskAllocationType", "allocationAreaName", "imageDiskMode", "readPassword",
            "writePassword", "multiPassword">>,
          <<Str("imageDiskNumber"), Str("sourceImageName"), Str("sourceImageDiskNumber"),
            Str("imageDiskAllocationType"), Str("allocationAreaName"), Str("imageDiskMode"),
            Str("readPassword"), Str("writePassword"), Str("multiPassword")>>)
smImage_Disk_Create ==
  Api(8, <<"imageDiskNumber", "imageDiskMode">>, <<Str("imageDiskNumber"), Str("imageDiskMode")>>)
smImage_Disk_Create_DM ==
  Api(42, <<"imageDiskNumber", "imageDiskDeviceType", "imageDiskAllocationType",
            "allocationAreaNameOrVolser", "imageDiskMode", "imageDiskLabel", "readPassword",
            "writePassword", "multiPassword">>,
          <<Str("imageDiskNumber"), Str("imageDiskDeviceType"), Str("imageDiskAllocationType"),
            Str("allocationAreaNameOrVolser"), Byte("allocationUnitSize"),
            Word("imageDiskSize"), Str("imageDiskMode"), Byte("imageDiskFormatting"),
            Str("imageDiskLabel"), Str("readPassword"), Str("writePassword"),
            Str("multiPassword")>>)
smImage_Disk_Delete == Api(4, <<"imageDiskNumber">>, <<Str("imageDiskNumber")>>)
smImage_Disk_Delete_DM ==
  Api(5, <<"imageDiskNumber">>, <<Str("imageDiskNumber"), Byte("dataSecurityErase")>>)
smImage_Disk_Query == ListApi(0, <<>>, 1, <<LastEntry>>)
smImage_Disk_Share ==
  Api(20, <<"imageDiskNumber", "targetImageName", "targetImageDiskNumber", "readWriteMode",
            "optionalPassword">>,
          <<Str("imageDiskNumber"), Str("targetImageName"), Str("targetImageDiskNumber"),
            Str("readWriteMode"), Str("optionalPassword")>>)
smImage_Disk_Share_DM ==
  Api(20, <<"targetImageDiskNumber", "targetImageName", "imageDiskNumber", "readWriteMode",
            "optionalPassword">>,
          <<Str("targetImageDiskNumber"), Str("targetImageName"), Str("imageDiskNumber"),
            Str("readWriteMode"), Str("optionalPassword")>>)
smImage_Disk_Unshare == Api(4, <<"imageDiskNumber">>, <<Str("imageDiskNumber")>>)
smImage_Disk_Unshare_DM ==
  Api(12, <<"imageDiskNumber", "targetImageName", "targetImageDiskNumber">>,
          <<Str("imageDiskNumber"), Str("targetImageName"), Str("targetImageDiskNumber")>>)
smImage_IPL_Delete_DM == Api(0, <<>>, <<>>)
smImage_IPL_Device_Query ==
  Raw(7, <<"functionName", "userid">>, <<Byte("0xFF"), CStr("functionName"), CStr("userid")>>)
smImage_IPL_Query_DM == Api(0, <<>>, <<>>)
smImage_IPL_Set_DM ==
  Api(12, <<"savedSystem", "loadParameter", "parameterString">>,
          <<Str("savedSystem"), Str("loadParameter"), Str("parameterString")>>)
smImage_Lock_DM == Api(4, <<"deviceAddress">>, <<Str("deviceAddress")>>)
smImage_Lock_Query_DM == Api(0, <<>>, <<>>)
smImage_MDISK_Link_Query == Api(1, <<"password", "vdev">>, <<Bytes("vdev"), Touch>>)
smImage_Name_Query_DM == Api(0, <<>>, <<>>)
smImage_Password_Set_DM == Api(4, <<"imagePassword">>, <<Blob("imagePassword")>>)
smImage_Pause == Api(0, <<"imagePauseOrBegin">>, <<Bytes("imagePauseOrBegin")>>)
smImage_Performance_Query == ListApi(0, <<>>, 1, <<List(1)>>)
smImage_Query_Activate_Time == Api(1, <<>>, <<Byte("dateFormat")>>)
smImage_Query_DM == Api(0, <<>>, <<>>)
smImage_Recycle == Api(0, <<>>, <<>>)
smImage_Replace_DM == ListApi(4, <<>>, 4, <<Announce(4), List(4)>>)
smImage_SCSI_Characteristics_Define_DM ==
  Api(21, <<"bootProgram", "brLba", "lun", "portName", "scpData">>,
          <<Str("bootProgram"), Str("brLba"), Str("lun"), Str("portName"), Byte("scpDatatype"),
            Blob("scpData")>>)
smImage_SCSI_Characteristics_Query_DM == Api(0, <<>>, <<>>)
smImage_Status_Query == Api(0, <<>>, <<>>)
smImage_Unlock_DM == Api(4, <<"deviceAddress">>, <<Str("deviceAddress")>>)
smImage_Volume_Add ==
  Api(48, <<"imageDeviceNumer", "imageVolumeLabel", "systemConfigName", "systemConfigType",
            "parmDiskOwner", "parmDiskNumber", "parmDiskPassword", "altSystemConfigName",
            "altSystemConfigType", "altParmDiskOwner", "altParmDiskNumber",
            "altParmDiskPassword">>,
          <<Str("imageDeviceNumer"), Str("imageVolumeLabel"), Str("systemConfigName"),
            Str("systemConfigType"), Str("parmDiskOwner"), Str("parmDiskNumber"),
            Str("parmDiskPassword"), Str("altSystemConfigName"), Str("altSystemConfigType"),
            Str("altParmDiskOwner"), Str("altParmDiskNumber"), Str("altParmDiskPassword")>>)
smImage_Volume_Delete ==
  Api(48, <<"imageDeviceNumer", "imageVolumeLabel", "systemConfigName", "systemConfigType",
            "parmDiskOwner", "parmDiskNumber", "parmDiskPassword", "altSystemConfigName",
            "altSystemConfigType", "altParmDiskOwner", "altParmDiskNumber",
            "altParmDiskPassword">>,
          <<Str("imageDeviceNumer"), Str("imageVolumeLabel"), Str("systemConfigName"),
            Str("systemConfigType"), Str("parmDiskOwner"), Str("parmDiskNumber"),
            Str("parmDiskPassword"), Str("altSystemConfigName"), Str("altSystemConfigType"),
            Str("altParmDiskOwner"), Str("altParmDiskNumber"), Str("altParmDiskPassword")>>)
smImage_Volume_Share == ListApi(0, <<>>, 1, <<List(1)>>)
smImage_Volume_Space_Define_DM ==
  Api(22, <<"regionName", "imageVolumeId", "groupName">>,
          <<Byte("functionType"), Str("regionName"), Str("imageVolumeId"), Word("startCyl"),
            Word("regionSize"), Str("groupName"), Byte("deviceType")>>)
smImage_Volume_Space_Define_Extended_DM == ListApi(4, <<>>, 1, <<Announce(1), List(1)>>)
smImage_Volume_Space_Query_DM ==
  Api(6, <<"entryNames">>, <<Byte("queryType"), Byte("entryType"), Str("entryNames")>>)
smImage_Volume_Space_Query_Extended_DM == ListApi(4, <<>>, 1, <<Announce(1), List(1)>>)
smImage_Volume_Space_Remove_DM ==
  Api(13, <<"regionName", "imageVolumeId", "groupName">>,
          <<Byte("functionType"), Str("regionName"), Str("imageVolumeId"), Str("groupName")>>)

(* Shared memory and the system. *)
smShared_Memory_Access_Add_DM == Api(4, <<"memorySegmentName">>, <<Str("memorySegmentName")>>)
smShared_Memory_Access_Query_DM == Api(4, <<"memorySegmentName">>, <<Str("memorySegmentName")>>)
smShared_Memory_Access_Remove_DM == Api(4, <<"memorySegmentName">>, <<Str("memorySegmentName")>>)
smShared_Memory_Create ==
  Api(26, <<"memorySegmentName", "memoryAccessIdentifier">>,
          <<Str("memorySegmentName"), Long("beginPage"), Long("endPage"),
            Byte("pageAccessDescriptor"), Byte("memoryAttributes"),
            Str("memoryAccessIdentifier")>>)
smShared_Memory_Delete == Api(4, <<"memorySegmentName">>, <<Str("memorySegmentName")>>)
smShared_Memory_Query == Api(4, <<"memorySegmentName">>, <<Str("memorySegmentName")>>)
smShared_Memory_Replace ==
  Api(8, <<"memorySegmentName", "memoryAccessIdentifier">>,
         <<Str("memorySegmentName"), Str("memoryAccessIdentifier")>>)
smSystem_Config_Syntax_Check == Errors("NO_LENGTH_FIELD", ListApi(0, <<>>, 1, <<List(1)>>))
smSystem_Disk_Accessibility == Marked(2, 1, ListApi(0, <<>>, 1, <<List(1)>>))
smSystem_Disk_Add == Marked(2, 1, ListApi(0, <<>>, 1, <<List(1)>>))
smSystem_Disk_IO_Query == ListApi(4, <<"password">>, 1, <<Announce(1), List(1)>>)
smSystem_Disk_Query == Marked(2, 1, ListApi(0, <<>>, 1, <<List(1)>>))
smSystem_EQID_Query == Errors("WITH_LENGTH_FIELD", Marked(2, 1, ListApi(0, <<>>, 1, <<List(1)>>)))
smSystem_FCP_Free_Query == Marked(2, 1, ListApi(0, <<>>, 1, <<List(1)>>))
smSystem_IO_Query ==
  Raw(7, <<"functionName", "realDeviceAddress">>,
         <<Byte("0xFF"), CStr("functionName"), CStr("realDeviceAddress")>>)
smSystem_Image_Performance_Query == Api(0, <<>>, <<>>)
smSystem_Info_Query == Raw(6, <<"functionName">>, <<Byte("0xFF"), CStr("functionName")>>)
smSystem_Information_Query == Errors("WITH_LENGTH_FIELD", Api(0, <<>>, <<>>))
smSystem_Page_Utilization_Query == Errors("WITH_LENGTH_FIELD", Api(0, <<"password">>, <<>>))
smSystem_Performance_Info_Query == Api(0, <<>>, <<>>)
smSystem_Performance_Information_Query ==
  Errors("WITH_LENGTH_FIELD",
    ListApi(4, <<>>, 1, <<Announce(1), List(1)>>))
smSystem_Performance_Threshold_Disable == Api(1, <<"eventType">>, <<Bytes("eventType"), Touch>>)
smSystem_Performance_Threshold_Enable == Api(1, <<"eventType">>, <<Bytes("eventType"), Touch>>)
smSystem_Processor_Query == Api(0, <<>>, <<>>)
smSystem_RDR_File_Manage == Marked(5, 1, ListApi(0, <<>>, 1, <<List(1)>>))
smSystem_SCSI_Disk_Add == Marked(5, 1, ListApi(0, <<>>, 1, <<List(1)>>))
smSystem_SCSI_Disk_Delete == Marked(3, 1, ListApi(0, <<>>, 1, <<List(1)>>))
smSystem_SCSI_Disk_Query == ListApi(0, <<>>, 1, <<List(1)>>)
smSystem_Service_Query ==
  Errors("WITH_LENGTH_FIELD",
    ListApi(4, <<>>, 1, <<Announce(1), List(1)>>))
smSystem_Shutdown == ListApi(0, <<>>, 1, <<List(1)>>)
smSystem_Spool_Utilization_Query == Errors("WITH_LENGTH_FIELD", Api(0, <<"password">>, <<>>))
smSystem_WWPN_Query == ListApi(0, <<>>, 1, <<List(1)>>)

(* Virtual channels and networks. *)
smVirtual_Channel_Connection_Create ==
  Api(12, <<"imageDeviceNumber", "coupledImageName", "coupledImageDeviceNumber">>,
          <<Str("imageDeviceNumber"), Str("coupledImageName"), Str("coupledImageDeviceNumber")>>)
smVirtual_Channel_Connection_Create_DM ==
  Api(8, <<"imageDeviceNumber", "coupledImageName">>,
         <<Str("imageDeviceNumber"), Str("coupledImageName")>>)
smVirtual_Channel_Connection_Delete ==
  Api(4, <<"imageDeviceNumber">>, <<Str("imageDeviceNumber")>>)
smVirtual_Channel_Connection_Delete_DM ==
  Api(4, <<"imageDeviceNumber">>, <<Str("imageDeviceNumber")>>)
smVirtual_Network_Adapter_Connect_LAN ==
  Api(12, <<"imageDeviceNumber", "lanName", "lanOwner">>,
          <<Str("imageDeviceNumber"), Str("lanName"), Str("lanOwner")>>)
smVirtual_Network_Adapter_Connect_LAN_DM ==
  Api(12, <<"imageDeviceNumber", "lanName", "lanOwner">>,
          <<Str("imageDeviceNumber"), Str("lanName"), Str("lanOwner")>>)
smVirtual_Network_Adapter_Connect_Vswitch ==
  Api(8, <<"imageDeviceNumber", "switchName">>, <<Str("imageDeviceNumber"), Str("switchName")>>)
smVirtual_Network_Adapter_Connect_Vswitch_DM ==
  Api(8, <<"imageDeviceNumber", "switchName">>, <<Str("imageDeviceNumber"), Str("switchName")>>)
smVirtual_Network_Adapter_Connect_Vswitch_Extended ==
  Marked(3, 1,
    ListApi(0, <<>>, 1, <<List(1)>>))
smVirtual_Network_Adapter_Create ==
  Api(13, <<"imageDeviceNumber", "channelPathId">>,
          <<Str("imageDeviceNumber"), Byte("adapterType"), Word("networkAdapterDevices"),
            Str("channelPathId")>>)
smVirtual_Network_Adapter_Create_DM ==
  Api(17, <<"imageDeviceNumber", "channelPathId", "macId">>,
          <<Str("imageDeviceNumber"), Byte("adapterType"), Word("networkAdapterDevices"),
            Str("channelPathId"), Str("macId")>>)
smVirtual_Network_Adapter_Create_Extended == Marked(4, 1, ListApi(0, <<>>, 1, <<List(1)>>))
smVirtual_Network_Adapter_Create_Extended_DM ==
  Marked(5, 1,
    ListApi(4, <<>>, 1, <<Announce(1), List(1)>>))
smVirtual_Network_Adapter_Delete == Api(4, <<"imageDeviceNumber">>, <<Str("imageDeviceNumber")>>)
smVirtual_Network_Adapter_Delete_DM ==
  Api(4, <<"imageDeviceNumber">>, <<Str("imageDeviceNumber")>>)
smVirtual_Network_Adapter_Disconnect ==
  Api(4, <<"imageDeviceNumber">>, <<Str("imageDeviceNumber")>>)
smVirtual_Network_Adapter_Disconnect_DM ==
  Api(4, <<"imageDeviceNumber">>, <<Str("imageDeviceNumber")>>)
smVirtual_Network_Adapter_Query == Api(4, <<"imageDeviceNumber">>, <<Str("imageDeviceNumber")>>)
smVirtual_Network_Adapter_Query_Extended == ListApi(4, <<>>, 1, <<Announce(1), List(1)>>)
smVirtual_Network_LAN_Access ==
  Api(5, <<"lanName", "lanOwner", "accessOption", "accessGrantName", "promiscuity">>,
         <<CStr("lanName"), CStr("lanOwner"), CStr("accessOption"), CStr("accessGrantName"),
           CStr("promiscuity")>>)
smVirtual_Network_LAN_Access_Query ==
  Api(2, <<"lanName", "lanOwner">>, <<CStr("lanName"), CStr("lanOwner")>>)
smVirtual_Network_LAN_Create ==
  Api(10, <<"lanName", "lanOwner">>,
          <<Str("lanName"), Str("lanOwner"), Byte("lanType"), Byte("transportType")>>)
smVirtual_Network_LAN_Delete ==
  Api(8, <<"lanName", "lanOwner">>, <<Str("lanName"), Str("lanOwner")>>)
smVirtual_Network_LAN_Query ==
  Api(8, <<"lanName", "lanOwner">>, <<Str("lanName"), Str("lanOwner")>>)
smVirtual_Network_OSA_Query == Api(0, <<>>, <<>>)
smVirtual_Network_Query_LAN == Raw(6, <<"functionName">>, <<Byte("0xFF"), CStr("functionName")>>)
smVirtual_Network_Query_OSA == Raw(6, <<"functionName">>, <<Byte("0xFF"), CStr("functionName")>>)
smVirtual_Network_VLAN_Query_Stats == ListApi(0, <<>>, 1, <<List(1)>>)
smVirtual_Network_Vswitch_Create ==
  Api(74, <<"switchName", "realDeviceAddress", "portName", "controllerName",
            "systemConfigName", "systemConfigType", "parmDiskOwner", "parmDiskNumber",
            "parmDiskPassword", "altSystemConfigName", "altSystemConfigType",
            "altParmDiskOwner", "altParmDiskNumber", "altParmDiskPassword">>,
          <<Str("switchName"), Str("realDeviceAddress"), Str("portName"),
            Str("controllerName"), Byte("connectionValue"), Word("queueMemoryLimit"),
            Byte("routingValue"), Byte("transportType"), Word("vlanId"), Byte("portType"),
            Byte("updateSystemConfigIndicator"), Str("systemConfigName"),
            Str("systemConfigType"), Str("parmDiskOwner"), Str("parmDiskNumber"),
            Str("parmDiskPassword"), Str("altSystemConfigName"), Str("altSystemConfigType"),
            Str("altParmDiskOwner"), Str("altParmDiskNumber"), Str("altParmDiskPassword"),
            Byte("gvrpValue"), Word("nativeVlanId")>>)
smVirtual_Network_Vswitch_Create_Extended == Marked(16, 1, ListApi(0, <<>>, 1, <<List(1)>>))
smVirtual_Network_Vswitch_Delete ==
  Api(45, <<"switchName", "systemConfigName", "systemConfigType", "parmDiskOwner",
            "parmDiskNumber", "parmDiskPassword", "altSystemConfigName", "altSystemConfigType",
            "altParmDiskOwner", "altParmDiskNumber", "altParmDiskPassword">>,
          <<Str("switchName"), Byte("updateSystemConfigIndicator"), Str("systemConfigName"),
            Str("systemConfigType"), Str("parmDiskOwner"), Str("parmDiskNumber"),
            Str("parmDiskPassword"), Str("altSystemConfigName"), Str("altSystemConfigType"),
            Str("altParmDiskOwner"), Str("altParmDiskNumber"), Str("altParmDiskPassword")>>)
smVirtual_Network_Vswitch_Delete_Extended == Marked(2, 1, ListApi(0, <<>>, 1, <<List(1)>>))
smVirtual_Network_Vswitch_Query == Api(4, <<"switchName">>, <<Str("switchName")>>)
smVirtual_Network_Vswitch_Query_Byte_Stats == Marked(2, 1, ListApi(0, <<>>, 1, <<List(1)>>))
smVirtual_Network_Vswitch_Query_Extended == Marked(2, 1, ListApi(0, <<>>, 1, <<List(1)>>))
smVirtual_Network_Vswitch_Query_IUO_Stats == Marked(2, 1, ListApi(0, <<>>, 1, <<List(1)>>))
smVirtual_Network_Vswitch_Query_Stats == Marked(2, 1, ListApi(0, <<>>, 1, <<List(1)>>))
smVirtual_Network_Vswitch_Set ==
  Api(81, <<"switchName", "grantUserid", "userVlanId", "revokeUserid", "realDeviceAddress",
            "portName", "controllerName", "systemConfigName", "systemConfigType",
            "parmDiskOwner", "parmDiskNumber", "parmDiskPassword", "altSystemConfigName",
            "altSystemConfigType", "altParmDiskOwner", "altParmDiskNumber",
            "altParmDiskPassword", "macId">>,
          <<Str("switchName"), Str("grantUserid"), Str("userVlanId"), Str("revokeUserid"),
            Str("realDeviceAddress"), Str("portName"), Str("controllerName"),
            Byte("connectionValue"), Word("queueMemoryLimit"), Byte("routingValue"),
            Byte("portType"), Byte("updateSystemConfigIndicator"), Str("systemConfigName"),
            Str("systemConfigType"), Str("parmDiskOwner"), Str("parmDiskNumber"),
            Str("parmDiskPassword"), Str("altSystemConfigName"), Str("altSystemConfigType"),
            Str("altParmDiskOwner"), Str("altParmDiskNumber"), Str("altParmDiskPassword"),
            Byte("gvrpValue"), Str("macId")>>)
smVirtual_Network_Vswitch_Set_Extended == Marked(33, 1, ListApi(0, <<>>, 1, <<List(1)>>))

(* Relocation and the resource manager. *)
smVMRELOCATE == Errors("NO_LENGTH_FIELD", Marked(6, 0, ListApi(0, <<>>, 1, <<List(1)>>)))
smVMRELOCATE_Image_Attributes == Marked(4, 1, ListApi(0, <<>>, 1, <<List(1)>>))
smVMRELOCATE_Modify == Errors("NO_LENGTH_FIELD", Marked(3, 1, ListApi(0, <<>>, 1, <<List(1)>>)))
smVMRELOCATE_Status == Marked(2, 1, ListApi(0, <<>>, 1, <<List(1)>>))
smVMRM_Configuration_Query ==
  Api(12, <<"configurationFileName", "configurationFileType", "configurationDirName">>,
          <<Str("configurationFileName"), Str("configurationFileType"),
            Str("configurationDirName")>>)
smVMRM_Configuration_Update ==
  ListApi(17, <<"configurationFileName", "configurationFileType", "configurationDirName">>, 0,
    <<Str("configurationFileName"), Str("configurationFileType"), Str("configurationDirName"),
      Byte("syncheckOnly"), Announce(0), List(0)>>)
smVMRM_Measurement_Query == Api(0, <<>>, <<>>)
(* The functions by name. *)
Vmapi ==
  [smAsynchronous_Notification_Disable_DM |-> smAsynchronous_Notification_Disable_DM,
   smAsynchronous_Notification_Enable_DM |-> smAsynchronous_Notification_Enable_DM,
   smAsynchronous_Notification_Query_DM |-> smAsynchronous_Notification_Query_DM,
   smAuthorization_List_Add |-> smAuthorization_List_Add,
   smAuthorization_List_Query |-> smAuthorization_List_Query,
   smAuthorization_List_Remove |-> smAuthorization_List_Remove,
   smCheck_Authentication |-> smCheck_Authentication, smDelete_ABEND_Dump |-> smDelete_ABEND_Dump,
   smDirectory_Manager_Local_Tag_Define_DM |-> smDirectory_Manager_Local_Tag_Define_DM,
   smDirectory_Manager_Local_Tag_Delete_DM |-> smDirectory_Manager_Local_Tag_Delete_DM,
   smDirectory_Manager_Local_Tag_Query_DM |-> smDirectory_Manager_Local_Tag_Query_DM,
   smDirectory_Manager_Local_Tag_Set_DM |-> smDirectory_Manager_Local_Tag_Set_DM,
   smDirectory_Manager_Search_DM |-> smDirectory_Manager_Search_DM,
   smDirectory_Manager_Task_Cancel_DM |-> smDirectory_Manager_Task_Cancel_DM,
   smEvent_Stream_Add |-> smEvent_Stream_Add, smEvent_Unsubscribe |-> smEvent_Unsubscribe,
   smIPaddr_Get |-> smIPaddr_Get, smImage_Activate |-> smImage_Activate,
   smImage_Active_Configuration_Query |-> smImage_Active_Configuration_Query,
   smImage_CPU_Define |-> smImage_CPU_Define, smImage_CPU_Define_DM |-> smImage_CPU_Define_DM,
   smImage_CPU_Delete |-> smImage_CPU_Delete, smImage_CPU_Delete_DM |-> smImage_CPU_Delete_DM,
   smImage_CPU_Query |-> smImage_CPU_Query, smImage_CPU_Query_DM |-> smImage_CPU_Query_DM,
   smImage_CPU_Set_Maximum_DM |-> smImage_CPU_Set_Maximum_DM,
   smImage_Console_Get |-> smImage_Console_Get, smImage_Create_DM |-> smImage_Create_DM,
   smImage_Deactivate |-> smImage_Deactivate,
   smImage_Definition_Async_Updates |-> smImage_Definition_Async_Updates,
   smImage_Definition_Create_DM |-> smImage_Definition_Create_DM,
   smImage_Definition_Delete_DM |-> smImage_Definition_Delete_DM,
   smImage_Definition_Query_DM |-> smImage_Definition_Query_DM,
   smImage_Definition_Update_DM |-> smImage_Definition_Update_DM,
   smImage_Delete_DM |-> smImage_Delete_DM, smImage_Device_Dedicate |-> smImage_Device_Dedicate,
   smImage_Device_Dedicate_DM |-> smImage_Device_Dedicate_DM,
   smImage_Device_Reset |-> smImage_Device_Reset,
   smImage_Device_Undedicate |-> smImage_Device_Undedicate,
   smImage_Device_Undedicate_DM |-> smImage_Device_Undedicate_DM,
   smImage_Disk_Copy |-> smImage_Disk_Copy, smImage_Disk_Copy_DM |-> smImage_Disk_Copy_DM,
   smImage_Disk_Create |-> smImage_Disk_Create, smImage_Disk_Create_DM |-> smImage_Disk_Create_DM,
   smImage_Disk_Delete |-> smImage_Disk_Delete, smImage_Disk_Delete_DM |-> smImage_Disk_Delete_DM,
   smImage_Disk_Query |-> smImage_Disk_Query, smImage_Disk_Share |-> smImage_Disk_Share,
   smImage_Disk_Share_DM |-> smImage_Disk_Share_DM, smImage_Disk_Unshare |-> smImage_Disk_Unshare,
   smImage_Disk_Unshare_DM |-> smImage_Disk_Unshare_DM,
   smImage_IPL_Delete_DM |-> smImage_IPL_Delete_DM,
   smImage_IPL_Device_Query |-> smImage_IPL_Device_Query,
   smImage_IPL_Query_DM |-> smImage_IPL_Query_DM, smImage_IPL_Set_DM |-> smImage_IPL_Set_DM,
   smImage_Lock_DM |-> smImage_Lock_DM, smImage_Lock_Query_DM |-> smImage_Lock_Query_DM,
   smImage_MDISK_Link_Query |-> smImage_MDISK_Link_Query,
   smImage_Name_Query_DM |-> smImage_Name_Query_DM,
   smImage_Password_Set_DM |-> smImage_Password_Set_DM, smImage_Pause |-> smImage_Pause,
   smImage_Performance_Query |-> smImage_Performance_Query,
   smImage_Query_Activate_Time |-> smImage_Query_Activate_Time,
   smImage_Query_DM |-> smImage_Query_DM, smImage_Recycle |-> smImage_Recycle,
   smImage_Replace_DM |-> smImage_Replace_DM,
   smImage_SCSI_Characteristics_Define_DM |-> smImage_SCSI_Characteristics_Define_DM,
   smImage_SCSI_Characteristics_Query_DM |-> smImage_SCSI_Characteristics_Query_DM,
   smImage_Status_Query |-> smImage_Status_Query, smImage_Unlock_DM |-> smImage_Unlock_DM,
   smImage_Volume_Add |-> smImage_Volume_Add, smImage_Volume_Delete |-> smImage_Volume_Delete,
   smImage_Volume_Share |-> smImage_Volume_Share,
   smImage_Volume_Space_Define_DM |-> smImage_Volume_Space_Define_DM,
   smImage_Volume_Space_Define_Extended_DM |-> smImage_Volume_Space_Define_Extended_DM,
   smImage_Volume_Space_Query_DM |-> smImage_Volume_Space_Query_DM,
   smImage_Volume_Space_Query_Extended_DM |-> smImage_Volume_Space_Query_Extended_DM,
   smImage_Volume_Space_Remove_DM |-> smImage_Volume_Space_Remove_DM,
   smMetadataDelete |-> smMetadataDelete, smMetadataGet |-> smMetadataGet,
   smMetadataSet |-> smMetadataSet, smMetadataSpaceQuery |-> smMetadataSpaceQuery,
   smName_List_Add |-> smName_List_Add, smName_List_Destroy |-> smName_List_Destroy,
   smName_List_Query |-> smName_List_Query, smName_List_Remove |-> smName_List_Remove,
   smNetwork_IP_Interface_Create |-> smNetwork_IP_Interface_Create,
   smNetwork_IP_Interface_Modify |-> smNetwork_IP_Interface_Modify,
   smNetwork_IP_Interface_Query |-> smNetwork_IP_Interface_Query,
   smNetwork_IP_Interface_Remove |-> smNetwork_IP_Interface_Remove,
   smPage_or_Spool_Volume_Add |-> smPage_or_Spool_Volume_Add,
   smProcess_ABEND_Dump |-> smProcess_ABEND_Dump, smProfile_Create_DM |-> smProfile_Create_DM,
   smProfile_Delete_DM |-> smProfile_Delete_DM, smProfile_Lock_DM |-> smProfile_Lock_DM,
   smProfile_Lock_Query_DM |-> smProfile_Lock_Query_DM, smProfile_Query_DM |-> smProfile_Query_DM,
   smProfile_Replace_DM |-> smProfile_Replace_DM, smProfile_Unlock_DM |-> smProfile_Unlock_DM,
   smPrototype_Create_DM |-> smPrototype_Create_DM,
   smPrototype_Delete_DM |-> smPrototype_Delete_DM,
   smPrototype_Name_Query_DM |-> smPrototype_Name_Query_DM,
   smPrototype_Query_DM |-> smPrototype_Query_DM,
   smPrototype_Replace_DM |-> smPrototype_Replace_DM, smQuery_ABEND_Dump |-> smQuery_ABEND_Dump,
   smQuery_API_Functional_Level |-> smQuery_API_Functional_Level,
   smQuery_All_DM_NO |-> smQuery_All_DM_NO, smQuery_All_DM_YES |-> smQuery_All_DM_YES,
   smQuery_Asychronous_Operation_DM |-> smQuery_Asychronous_Operation_DM,
   smQuery_Directory_Manager_Level_DM |-> smQuery_Directory_Manager_Level_DM,
   smResponse_Recovery |-> smResponse_Recovery, smSMAPI_Status_Capture |-> smSMAPI_Status_Capture,
   smSSI_Query |-> smSSI_Query, smShared_Memory_Access_Add_DM |-> smShared_Memory_Access_Add_DM,
   smShared_Memory_Access_Query_DM |-> smShared_Memory_Access_Query_DM,
   smShared_Memory_Access_Remove_DM |-> smShared_Memory_Access_Remove_DM,
   smShared_Memory_Create |-> smShared_Memory_Create,
   smShared_Memory_Delete |-> smShared_Memory_Delete,
   smShared_Memory_Query |-> smShared_Memory_Query,
   smShared_Memory_Replace |-> smShared_Memory_Replace,
   smStatic_Image_Changes_Activate_DM |-> smStatic_Image_Changes_Activate_DM,
   smStatic_Image_Changes_Deactivate_DM |-> smStatic_Image_Changes_Deactivate_DM,
   smStatic_Image_Changes_Immediate_DM |-> smStatic_Image_Changes_Immediate_DM,
   smSystem_Config_Syntax_Check |-> smSystem_Config_Syntax_Check,
   smSystem_Disk_Accessibility |-> smSystem_Disk_Accessibility,
   smSystem_Disk_Add |-> smSystem_Disk_Add, smSystem_Disk_IO_Query |-> smSystem_Disk_IO_Query,
   smSystem_Disk_Query |-> smSystem_Disk_Query, smSystem_EQID_Query |-> smSystem_EQID_Query,
   smSystem_FCP_Free_Query |-> smSystem_FCP_Free_Query, smSystem_IO_Query |-> smSystem_IO_Query,
   smSystem_Image_Performance_Query |-> smSystem_Image_Performance_Query,
   smSystem_Info_Query |-> smSystem_Info_Query,
   smSystem_Information_Query |-> smSystem_Information_Query,
   smSystem_Page_Utilization_Query |-> smSystem_Page_Utilization_Query,
   smSystem_Performance_Info_Query |-> smSystem_Performance_Info_Query,
   smSystem_Performance_Information_Query |-> smSystem_Performance_Information_Query,
   smSystem_Performance_Threshold_Disable |-> smSystem_Performance_Threshold_Disable,
   smSystem_Performance_Threshold_Enable |-> smSystem_Performance_Threshold_Enable,
   smSystem_Processor_Query |-> smSystem_Processor_Query,
   smSystem_RDR_File_Manage |-> smSystem_RDR_File_Manage,
   smSystem_SCSI_Disk_Add |-> smSystem_SCSI_Disk_Add,
   smSystem_SCSI_Disk_Delete |-> smSystem_SCSI_Disk_Delete,
   smSystem_SCSI_Disk_Query |-> smSystem_SCSI_Disk_Query,
   smSystem_Service_Query |-> smSystem_Service_Query, smSystem_Shutdown |-> smSystem_Shutdown,
   smSystem_Spool_Utilization_Query |-> smSystem_Spool_Utilization_Query,
   smSystem_WWPN_Query |-> smSystem_WWPN_Query, smVMRELOCATE |-> smVMRELOCATE,
   smVMRELOCATE_Image_Attributes |-> smVMRELOCATE_Image_Attributes,
   smVMRELOCATE_Modify |-> smVMRELOCATE_Modify, smVMRELOCATE_Status |-> smVMRELOCATE_Status,
   smVMRM_Configuration_Query |-> smVMRM_Configuration_Query,
   smVMRM_Configuration_Update |-> smVMRM_Configuration_Update,
   smVMRM_Measurement_Query |-> smVMRM_Measurement_Query,
   smVirtual_Channel_Connection_Create |-> smVirtual_Channel_Connection_Create,
   smVirtual_Channel_Connection_Create_DM |-> smVirtual_Channel_Connection_Create_DM,
   smVirtual_Channel_Connection_Delete |-> smVirtual_Channel_Connection_Delete,
   smVirtual_Channel_Connection_Delete_DM |-> smVirtual_Channel_Connection_Delete_DM,
   smVirtual_Network_Adapter_Connect_LAN |-> smVirtual_Network_Adapter_Connect_LAN,
   smVirtual_Network_Adapter_Connect_LAN_DM |-> smVirtual_Network_Adapter_Connect_LAN_DM,
   smVirtual_Network_Adapter_Connect_Vswitch |-> smVirtual_Network_Adapter_Connect_Vswitch,
   smVirtual_Network_Adapter_Connect_Vswitch_DM |-> smVirtual_Network_Adapter_Connect_Vswitch_DM,
   smVirtual_Network_Adapter_Connect_Vswitch_Extended |-> smVirtual_Network_Adapter_Connect_Vswitch_Extended,
   smVirtual_Network_Adapter_Create |-> smVirtual_Network_Adapter_Create,
   smVirtual_Network_Adapter_Create_DM |-> smVirtual_Network_Adapter_Create_DM,
   smVirtual_Network_Adapter_Create_Extended |-> smVirtual_Network_Adapter_Create_Extended,
   smVirtual_Network_Adapter_Create_Extended_DM |-> smVirtual_Network_Adapter_Create_Extended_DM,
   smVirtual_Network_Adapter_Delete |-> smVirtual_Network_Adapter_Delete,
   smVirtual_Network_Adapter_Delete_DM |-> smVirtual_Network_Adapter_Delete_DM,
   smVirtual_Network_Adapter_Disconnect |-> smVirtual_Network_Adapter_Disconnect,
   smVirtual_Network_Adapter_Disconnect_DM |-> smVirtual_Network_Adapter_Disconnect_DM,
   smVirtual_Network_Adapter_Query |-> smVirtual_Network_Adapter_Query,
   smVirtual_Network_Adapter_Query_Extended |-> smVirtual_Network_Adapter_Query_Extended,
   smVirtual_Network_LAN_Access |-> smVirtual_Network_LAN_Access,
   smVirtual_Network_LAN_Access_Query |-> smVirtual_Network_LAN_Access_Query,
   smVirtual_Network_LAN_Create |-> smVirtual_Network_LAN_Create,
   smVirtual_Network_LAN_Delete |-> smVirtual_Network_LAN_Delete,
   smVirtual_Network_LAN_Query |-> smVirtual_Network_LAN_Query,
   smVirtual_Network_OSA_Query |-> smVirtual_Network_OSA_Query,
   smVirtual_Network_Query_LAN |-> smVirtual_Network_Query_LAN,
   smVirtual_Network_Query_OSA |-> smVirtual_Network_Query_OSA,
   smVirtual_Network_VLAN_Query_Stats |-> smVirtual_Network_VLAN_Query_Stats,
   smVirtual_Network_Vswitch_Create |-> smVirtual_Network_Vswitch_Create,
   smVirtual_Network_Vswitch_Create_Extended |-> smVirtual_Network_Vswitch_Create_Extended,
   smVirtual_Network_Vswitch_Delete |-> smVirtual_Network_Vswitch_Delete,
   smVirtual_Network_Vswitch_Delete_Extended |-> smVirtual_Network_Vswitch_Delete_Extended,
   smVirtual_Network_Vswitch_Query |-> smVirtual_Network_Vswitch_Query,
   smVirtual_Network_Vswitch_Query_Byte_Stats |-> smVirtual_Network_Vswitch_Query_Byte_Stats,
   smVirtual_Network_Vswitch_Query_Extended |-> smVirtual_Network_Vswitch_Query_Extended,
   smVirtual_Network_Vswitch_Query_IUO_Stats |-> smVirtual_Network_Vswitch_Query_IUO_Stats,
   smVirtual_Network_Vswitch_Query_Stats |-> smVirtual_Network_Vswitch_Query_Stats,
   smVirtual_Network_Vswitch_Set |-> smVirtual_Network_Vswitch_Set,
   smVirtual_Network_Vswitch_Set_Extended |-> smVirtual_Network_Vswitch_Set_Extended,
   smXCAT_Commands_IUO |-> smXCAT_Commands_IUO]
=============================================================================
