----------------------------- MODULE VmapiTables -----------------------------
(***************************************************************************)
(* The parser tables of the vmapi headers: what getAndParseSmapiBuffer is  *)
(* told about the answer to each request.  A table is a sequence of rows;  *)
(* END_OF_TABLE is its end.  The last column, an offset into or the size   *)
(* of a C structure, is abstracted to the name of the structure: offsetof  *)
(* and sizeof are right by the compiler, the structure is written by hand. *)
(***************************************************************************)
EXTENDS ParserRows

-----------------------------------------------------------------------------
(* vmapiAsynchronous.h *)

Asynchronous_Notification_Disable_DM_Layout ==
  Plain("vmApiAsynchronousNotificationDisableDmOutput")

Asynchronous_Notification_Enable_DM_Layout ==
  Plain("vmApiAsynchronousNotificationEnableDmOutput")

Asynchronous_Notification_Query_DM_Layout ==
  Reply("vmApiAsynchronousNotificationQueryDmOutput", <<ArrayLen, StructCount>>)
  \o Part(1, 1, "vmApiNotification", <<StructLen, String(1, 8), Int1, Int1, Int4, String(7, 15),
        Int1, CharBuf(0, 64), CharBufCount>>)

-----------------------------------------------------------------------------
(* vmapiAuthorization.h *)

Authorization_List_Add_Layout == Plain("vmApiAuthorizationListAddOutput")

Authorization_List_Query_Layout ==
  Reply("vmApiAuthorizationListQueryOutput", <<ArrayLen, StructCount>>)
  \o Part(1, 1, "vmApiAuthorizationRecord", <<StructLen, String(0, 64), Int1, String(0, 64),
        Int1, String(0, 64), Int1>>)

Authorization_List_Remove_Layout == Plain("vmApiAuthorizationListRemoveOutput")

-----------------------------------------------------------------------------
(* vmapiCheck.h *)

Check_Authentication_Layout == Plain("vmApiCheckAuthenticationOutput")

-----------------------------------------------------------------------------
(* vmapiDelete.h *)

Delete_ABEND_Dump_Layout == Plain("vmApiDeleteABENDDumpOutput")

-----------------------------------------------------------------------------
(* vmapiDirectory.h *)

Directory_Manager_Local_Tag_Define_DM_Layout ==
  Plain("vmApiDirectoryManagerLocalTagDefineDmOutput")

Directory_Manager_Local_Tag_Delete_DM_Layout ==
  Plain("vmApiDirectoryManagerLocalTagDeleteDmOutput")

Directory_Manager_Local_Tag_Query_DM_Layout ==
  Reply("vmApiDirectoryManagerLocalTagQueryDmOutput", <<CharBuf(1, 240), CharBufCount>>)

Directory_Manager_Local_Tag_Set_DM_Layout == Plain("vmApiDirectoryManagerLocalTagSetDmOutput")

Directory_Manager_Search_DM_Layout ==
  Reply("vmApiDirectoryManagerSearchDmOutput", <<ArrayLen, StructCount>>)
  \o Part(1, 1, "vmApiDirectoryManagerStatement", <<NoBufferStructLen, String(1, 8),
        CharBuf(1, 72), CharBufCount>>)

Directory_Manager_Task_Cancel_DM_Layout == Plain("vmApiDirectoryManagerTaskCancelDmOutput")

-----------------------------------------------------------------------------
(* vmapiEvent.h *)

Event_Stream_Add_Layout == Plain("vmApiEventStreamAddOutput")
Event_Subscribe_Layout == Plain("vmApiEventSubscribeOutput")

Event_Unsubscribe_Layout ==
  Part(0, 0, "vmApiEventUnsubscribeOutput", <<BaseStructLen, Int4>>)

-----------------------------------------------------------------------------
(* vmapiImage.h *)

Image_Activate_Layout ==
  Reply("vmApiImageActivateOutput", <<Int4, Int4, ArrayLen, StructCount>>)
  \o Part(1, 1, "vmApiImageFailing", <<StructLen, String(1, 8), Int4, Int4>>)

Image_Active_Configuration_Query_Layout ==
  Reply("vmApiImageActiveConfigurationQueryOutput", <<Int4, Int1, Int1, String(1, 5), Int4,
      ArrayLen, StructCount>>)
  \o Part(1, 1, "vmApiImageCpuInfo", <<StructLen, Int4, String(1, 16), Int1>>)
  \o Part(0, 0, "vmApiImageActiveConfigurationQueryOutput", <<ArrayLen, StructCount>>)
  \o Part(2, 1, "vmApiImageDeviceInfo", <<StructLen, Int1, String(4, 16)>>)

Image_CPU_Define_Layout == Plain("vmApiImageCpuDefineOutput")
Image_CPU_Define_DM_Layout == Plain("vmApiImageCpuDefineDmOutput")
Image_CPU_Delete_Layout == Plain("vmApiImageCpuDeleteOutput")
Image_CPU_Delete_DM_Layout == Plain("vmApiImageCpuDeleteDmOutput")

Image_CPU_Query_Layout ==
  Reply("vmApiImageCpuQueryOutput", <<Int4, ArrayLen, StructCount>>)
  \o Part(1, 1, "vmApiImageCpuInfo", <<StructLen, Int4, String(1, 16), Int1, Int1, Int1>>)

Image_CPU_Query_DM_Layout ==
  Reply("vmApiImageCpuQueryDmOutput", <<String(1, 2), Int1, String(0, 6), Int1, Int1>>)

Image_CPU_Set_Maximum_DM_Layout == Plain("vmApiImageCpuSetMaximumDmOutput")

Image_Create_DM_Layout ==
  Reply("vmApiImageCreateDmOutput", <<Int4>>)

Image_Deactivate_Layout ==
  Reply("vmApiImageDeactivateOutput", <<Int4, Int4, ArrayLen, StructCount>>)
  \o Part(1, 1, "vmApiImageFailing", <<StructLen, String(1, 8), Int4, Int4>>)

Image_Delete_DM_Layout ==
  Reply("vmApiImageDeleteDmOutput", <<Int4>>)

Image_Device_Dedicate_Layout == Plain("vmApiImageDeviceDedicateOutput")
Image_Device_Dedicate_DM_Layout == Plain("vmApiImageDeviceDedicateDmOutput")
Image_Device_Reset_Layout == Plain("vmApiImageDeviceResetOutput")
Image_Device_Undedicate_Layout == Plain("vmApiImageDeviceUndedicateOutput")
Image_Device_Undedicate_DM_Layout == Plain("vmApiImageDeviceUndedicateDmOutput")
Image_Disk_Copy_Layout == Plain("vmApiImageDiskCopyOutput")

Image_Disk_Copy_DM_Layout ==
  Reply("vmApiImageDiskCopyDmOutput", <<Int4>>)

Image_Disk_Create_Layout == Plain("vmApiImageDiskCreateOutput")

Image_Disk_Create_DM_Layout ==
  Reply("vmApiImageDiskCreateDmOutput", <<Int4>>)

Image_Disk_Delete_Layout == Plain("vmApiImageDiskDeleteOutput")

Image_Disk_Delete_DM_Layout ==
  Reply("vmApiImageDiskDeleteDmOutput", <<Int4>>)

Image_Disk_Query_Layout ==
  Reply("vmApiImageDiskQueryOutput", <<ArrayNoLength, StructCount>>)
  \o Part(1, 1, "vmApiImageDiskDASD", <<NoBufferStructLen, Fixed(4), Fixed(4), Int1, Fixed(4),
        Int8, Int1, CStr(1, 6)>>)

Image_Disk_Share_Layout == Plain("vmApiImageDiskShareOutput")
Image_Disk_Share_DM_Layout == Plain("vmApiImageDiskShareDmOutput")
Image_Disk_Unshare_Layout == Plain("vmApiImageDiskUnshareOutput")
Image_Disk_Unshare_DM_Layout == Plain("vmApiImageDiskUnshareDmOutput")
Image_IPL_Delete_DM_Layout == Plain("vmApiImageIplDeleteDmOutput")

Image_IPL_Query_DM_Layout ==
  Reply("vmApiImageIplQueryDmOutput", <<String(1, 8), String(0, 10), String(0, 64)>>)

Image_IPL_Set_DM_Layout == Plain("vmApiImageIplSetDmOutput")
Image_Lock_DM_Layout == Plain("vmApiImageLockDmOutput")

Image_Lock_Query_DM_Layout ==
  Reply("vmApiImageLockQueryDmOutput", <<Int4, CStr(1, 17), Int4, ArrayNoLength, StructCount>>)
  \o Part(1, 1, "vmApiImageDevLockInfoRecord", <<NoBufferStructLen, CStr(1, 13)>>)

Image_MDISK_Link_Query_Layout ==
  Reply("vmApiImageMDISKLinkQueryOutput", <<ArrayLen, StructCount>>)
  \o Part(1, 1, "vmApiCStringInfo", <<NoBufferStructLen, CStr(1, 29)>>)

Image_Name_Query_DM_Layout ==
  Reply("vmApiImageNameQueryDmOutput", <<ArrayLen, StructCount>>)
  \o Part(1, 1, "vmApiImageName", <<NoBufferStructLen, String(1, 8)>>)

Image_Password_Set_DM_Layout == Plain("vmApiImagePasswordSetDmOutput")
Image_Pause_Layout == Plain("vmApiImagePauseOutput")

Image_Query_Activate_Time_Layout ==
  Part(0, 0, "vmApiImageQueryActivateTimeOutput", <<BaseStructLen, Int4, Int4, Int4,
        String(1, 8), String(8, 10), String(8, 8)>>)

Image_Query_DM_Layout ==
  Part(0, 0, "vmApiImageQueryDmOutput", <<BaseStructLen, RcInt4, RsInt4, Int4, ArrayLen,
        StructCount>>)
  \o Part(1, 1, "vmApiImageRecord", <<NoBufferStructLen, CharBuf(1, 80), CharBufCount>>)

Image_Recycle_Layout ==
  Reply("vmApiImageRecycleOutput", <<Int4, Int4, ArrayLen, StructCount>>)
  \o Part(1, 1, "vmApiImageFailing", <<StructLen, String(1, 8), Int4, Int4>>)

Image_Replace_DM_Layout == Plain("vmApiImageReplaceDmOutput")

Image_SCSI_Characteristics_Define_DM_Layout ==
  Plain("vmApiImageScsiCharacteristicsDefineDmOutput")

Image_SCSI_Characteristics_Query_DM_Layout ==
  Reply("vmApiImageScsiCharacteristicsQueryDmOutput", <<String(0, 6), String(0, 16),
      String(0, 16), String(0, 16), Int1, CharBuf(0, 4102), CharBufCount>>)

Image_Status_Query_Layout ==
  Reply("vmApiImageStatusQueryOutput", <<ArrayLen, StructCount>>)
  \o Part(1, 1, "vmApiImageName", <<NoBufferStructLen, String(1, 8)>>)

Image_Unlock_DM_Layout == Plain("vmApiImageUnlockDmOutput")
Image_Volume_Add_Layout == Plain("vmApiImageVolumeAddOutput")
Image_Volume_Delete_Layout == Plain("vmApiImageVolumeDeleteOutput")
Image_Volume_Share_Layout == Plain("vmApiImageVolumeShareOutput")
Image_Volume_Space_Define_DM_Layout == Plain("vmApiImageVolumeSpaceDefineDmOutput")

Image_Volume_Space_Define_Extended_DM_Layout ==
  Plain("vmApiImageVolumeSpaceDefineExtendedDmOutput")

Image_Volume_Space_Query_DM_Layout ==
  Part(0, 0, "vmApiImageVolumeSpaceQueryDmOutput", <<BaseStructLen, Int4, Int4, Int4, ArrayLen,
        StructCount>>)
  \o Part(1, 1, "vmApiImageRecord", <<NoBufferStructLen, CharBuf(1, -1), CharBufCount>>)

Image_Volume_Space_Query_Extended_DM_Layout ==
  Part(0, 0, "vmApiVolumeSpaceQueryExtendedDmOutput", <<BaseStructLen, Int4, Int4, Int4,
        CStrArrayPtr, CStrArrayCount>>)
  \o Part(1, 1, "vmApiCStringInfo", <<CStrStructLen, CStr(4, 4)>>)

Image_Volume_Space_Remove_DM_Layout == Plain("vmApiImageVolumeSpaceRemoveDmOutput")
Image_Console_Get_Layout == Plain("vmApiImageConsoleGetOutput")

-----------------------------------------------------------------------------
(* vmapiImageDefinition.h *)

Image_Definition_Async_Updates_Layout ==
  Part(0, 0, "vmApiImageDefinitionAsyncUpdatesOutput", <<BaseStructLen, Int4, Int4, Int4>>)

Image_Definition_Create_DM_Layout ==
  Reply("vmApiImageDefinitionCreateDMOutput", <<CharBuf(0, -1), CharBufCount, ErrorBuffLen,
      ErrorBuffPtr>>)

Image_Definition_Delete_DM_Layout ==
  Reply("vmApiImageDefinitionDeleteDMOutput", <<CharBuf(0, -1), CharBufCount, ErrorBuffLen,
      ErrorBuffPtr>>)

Image_Definition_Query_DM_Layout ==
  Reply("vmApiImageDefinitionQueryDMOutput", <<CharBuf(0, -1), CharBufCount, ErrorBuffPtr,
      ErrorBuffLen>>)

Image_Definition_Update_DM_Layout ==
  Reply("vmApiImageDefinitionUpdateDMOutput", <<CharBuf(0, -1), CharBufCount, ErrorBuffPtr,
      ErrorBuffLen>>)

-----------------------------------------------------------------------------
(* vmapiMetadata.h *)

Metadata_Delete_Layout == Plain("vmApiMetadataDeleteOutput")

Metadata_Get_Layout ==
  Reply("vmApiMetadataGetOutput", <<ArrayLen, StructCount>>)
  \o Part(1, 1, "vmApiMetadataEntry", <<StructLen, String(0, 1024), String(0, -1)>>)

Metadata_Set_Layout == Plain("vmApiMetadataSetOutput")

Metadata_Space_Query_Layout ==
  Reply("vmApiMetadataSpaceQueryOutput", <<CStrArrayPtr, CStrArrayCount>>)
  \o Part(1, 1, "vmApiCStringInfo", <<CStrStructLen, CStr(4, 4)>>)

-----------------------------------------------------------------------------
(* vmapiName.h *)

Name_List_Add_Layout == Plain("vmApiNameListAddOutput")
Name_List_Destroy_Layout == Plain("vmApiNameListDestroyOutput")

Name_List_Query_Layout ==
  Reply("vmApiNameListQueryOutput", <<ArrayLen, StructCount>>)
  \o Part(1, 1, "vmApiNameList", <<NoBufferStructLen, String(1, 64)>>)

Name_List_Remove_Layout == Plain("vmApiNameListRemoveOutput")

-----------------------------------------------------------------------------
(* vmapiNetwork.h *)

Network_IP_Interface_Create_Layout ==
  Reply("vmApiNetworkIPInterfaceCreateOutput", <<ErrorBuffLen, ErrorBuffPtr>>)

Network_IP_Interface_Modify_Layout ==
  Reply("vmApiNetworkIPInterfaceModifyOutput", <<ErrorBuffLen, ErrorBuffPtr>>)

Network_IP_Interface_Query_Layout ==
  Reply("vmApiNetworkIPInterfaceQueryOutput", <<Int4, CStrArrayPtr, CStrArrayCount>>)
  \o Part(1, 1, "vmApiCStringInfo", <<CStrStructLen, CStr(4, 4)>>)

Network_IP_Interface_Remove_Layout ==
  Reply("vmApiNetworkIPInterfaceRemoveOutput", <<ErrorBuffLen, ErrorBuffPtr>>)

-----------------------------------------------------------------------------
(* vmapiPage.h *)

Page_or_Spool_Volume_Add_Layout == Plain("vmApiPageOrSpoolVolumeAddOutput")

-----------------------------------------------------------------------------
(* vmapiProcess.h *)

Process_ABEND_Dump_Layout == Plain("vmApiProcessAbendDumpOutput")

-----------------------------------------------------------------------------
(* vmapiProfile.h *)

Profile_Create_DM_Layout == Plain("vmApiProfileCreateDmOutput")
Profile_Delete_DM_Layout == Plain("vmApiProfileDeleteDmOutput")
Profile_Lock_DM_Layout == Plain("vmApiProfileLockDmOutput")

Profile_Lock_Query_DM_Layout ==
  Reply("vmApiProfileLockQueryDmOutput", <<Int4, CStr(1, 17), Int4, ArrayNoLength,
      StructCount>>)
  \o Part(1, 1, "vmApiProfileDevLockInfoRecord", <<NoBufferStructLen, CStr(1, 13)>>)

Profile_Query_DM_Layout ==
  Reply("vmApiProfileQueryDmOutput", <<ArrayLen, StructCount>>)
  \o Part(1, 1, "vmApiProfileRecord", <<NoBufferStructLen, CharBuf(0, 80), CharBufCount>>)

Profile_Replace_DM_Layout == Plain("vmApiProfileReplaceDmOutput")
Profile_Unlock_DM_Layout == Plain("vmApiProfileUnlockDmOutput")

-----------------------------------------------------------------------------
(* vmapiPrototype.h *)

Prototype_Create_DM_Layout == Plain("vmApiPrototypeCreateDmOutput")
Prototype_Delete_DM_Layout == Plain("vmApiPrototypeDeleteDmOutput")

Prototype_Name_Query_DM_Layout ==
  Reply("vmApiPrototypeNameQueryDmOutput", <<ArrayLen, StructCount>>)
  \o Part(1, 1, "vmApiPrototypeNameList", <<NoBufferStructLen, String(1, 8)>>)

Prototype_Query_DM_Layout ==
  Reply("vmApiPrototypeQueryDmOutput", <<ArrayLen, StructCount>>)
  \o Part(1, 1, "vmApiPrototypeRecordList", <<NoBufferStructLen, CharBuf(1, 72), CharBufCount>>)

Prototype_Replace_DM_Layout == Plain("vmApiPrototypeReplaceDmOutput")

-----------------------------------------------------------------------------
(* vmapiQuery.h *)

Query_ABEND_Dump_Layout ==
  Reply("vmApiQueryAbendDumpOutput", <<ArrayNoLength, StructCount>>)
  \o Part(1, 1, "vmApiAbendDumpInfo", <<NoBufferStructLen, Int1, Fixed(8), Fixed(10),
        Fixed(8)>>)

Query_All_DM_YES_Layout ==
  Reply("vmApiQueryAllDmOutput", <<ArrayLen, StructCount>>)
  \o Part(1, 1, "vmapiDirectoryEntryStructure", <<StructLen, Int4, String(1, 10),
        CharBuf(0, -1), CharBufCount>>)

Query_All_DM_NO_Layout ==
  Reply("vmApiQueryAllDmOutput", <<ArrayLen, StructCount>>)
  \o Part(1, 1, "vmapiDirectoryEntryStructure", <<StructLen, Int4, String(1, 10), ArrayLen,
        StructCount>>)
  \o Part(2, 2, "vmApiDirectoryEntryRecord", <<NoBufferStructLen, CharBuf(1, 80),
        CharBufCount>>)

Query_API_Functional_Level_Layout == Plain("vmApiQueryApiFunctionalLevelOutput")
Query_Asynchronous_Operation_DM_Layout == Plain("vmApiQueryAsynchronousOperationDmOutput")

Query_Directory_Manager_Level_DM_Layout ==
  Part(0, 0, "vmApiQueryDirectoryManagerLevelDmOutput", <<BaseStructLen, Int4, Int4, Int4,
        CharBuf(1, 100), CharBufCount>>)

-----------------------------------------------------------------------------
(* vmapiResponse.h *)

Response_Recovery_Layout ==
  Reply("vmApiResponseRecoveryOutput", <<>>)
  \o Part(1, 1, "vmApiCStringInfo", <<CStrStructLen, CStr(4, 4)>>)

-----------------------------------------------------------------------------
(* vmapiSMAPI.h *)

SMAPI_Status_Capture_Layout == Plain("vmApiSMAPIStatusCaptureOutput")

-----------------------------------------------------------------------------
(* vmapiSSI.h *)

SSI_Query_Layout ==
  Reply("vmApiSSIQueryOutput", <<CStr(1, 8), CStr(4, 6), CStr(7, 8), CStr(6, 14), CStrArrayPtr,
      CStrArrayCount>>)
  \o Part(1, 1, "vmApiCStringInfo", <<CStrStructLen, CStr(4, 4)>>)

-----------------------------------------------------------------------------
(* vmapiShared.h *)

Shared_Memory_Access_Add_DM_Layout == Plain("vmApiSharedMemoryAccessAddDmOutput")

Shared_Memory_Access_Query_DM_Layout ==
  Reply("vmApiSharedMemoryAccessQueryDmOutput", <<ArrayLen, StructCount>>)
  \o Part(1, 1, "vmApiSharedMemorySegmentName", <<NoBufferStructLen, String(1, 8)>>)

Shared_Memory_Access_Remove_DM_Layout == Plain("vmApiSharedMemoryAccessRemoveDmOutput")
Shared_Memory_Create_Layout == Plain("vmApiSharedMemoryCreateOutput")
Shared_Memory_Delete_Layout == Plain("vmApiSharedMemoryDeleteOutput")

Shared_Memory_Query_Layout ==
  Reply("vmApiSharedMemoryQueryOutput", <<ArrayLen, StructCount>>)
  \o Part(1, 1, "vmApiSharedMemorySegmentInfo", <<StructLen, String(1, 8), Int1, ArrayLen,
        StructCount>>)
  \o Part(2, 2, "vmApiSharedPageRangeInfo", <<StructLen, Int8, Int8, Int1>>)

Shared_Memory_Replace_Layout == Plain("vmApiSharedMemoryReplaceOutput")

-----------------------------------------------------------------------------
(* vmapiStatic.h *)

Static_Image_Changes_Activate_DM_Layout == Plain("vmApiStaticImageChangesActivateDmOutput")
Static_Image_Changes_Deactivate_DM_Layout == Plain("vmApiStaticImageChangesDeactivateDmOutput")
Static_Image_Changes_Immediate_DM_Layout == Plain("vmApiStaticImageChangesImmediateDmOutput")

-----------------------------------------------------------------------------
(* vmapiSystem.h *)

System_Config_Syntax_Check_Layout ==
  Reply("vmApiSystemConfigSyntaxCheckOutput", <<ErrorBuffLen, ErrorBuffPtr>>)

System_Disk_Accessibility_Layout == Plain("vmApiSystemDiskAccessibilityOutput")
System_Disk_Add_Layout == Plain("vmApiSystemDiskAddOutput")

System_Disk_IO_Query_Layout ==
  Reply("vmApiSystemDiskIOQueryOutput", <<CharBuf(0, -1), CharBufCount, ErrorBuffPtr,
      ErrorBuffLen>>)

System_Disk_Query_Layout ==
  Reply("vmApiSystemDiskQueryOutput", <<CStrArrayPtr, CStrArrayCount>>)
  \o Part(1, 1, "vmApiCStringInfo", <<CStrStructLen, CStr(4, 4)>>)

System_EQID_Query_Layout ==
  Reply("vmApiSystemEQIDQueryOutput", <<Int4, CStrArrayPtr, CStrArrayCount>>)
  \o Part(1, 1, "vmApiCStringInfo", <<CStrStructLen, CStr(4, 4)>>)
  \o Part(0, 0, "vmApiSystemEQIDQueryOutput", <<ErrorBuffPtr, ErrorBuffLen>>)

System_FCP_Free_Query_Layout ==
  Reply("vmApiSystemFCPFreeQueryOutput", <<CStrArrayPtr, CStrArrayCount>>)
  \o Part(1, 1, "vmApiCStringInfo", <<CStrStructLen, CStr(4, 4)>>)

System_Image_Performance_Query_Layout ==
  Reply("vmApiSystemImagePerformanceQueryOutput", <<ArrayCount, StructCount>>)
  \o Part(1, 1, "vmApiSystemImagePerformanceRecord", <<StructLen, Int4, Int4, Int8, Int8, Int8,
        Int8, Int8, Int8, Int4, Int4, Int4, Int4, Int4, Int4, Int4, Int4, Int4, Int4, Int4,
        Int4, Fixed(8)>>)

System_Information_Query_Layout ==
  Reply("vmApiSystemInformationQueryOutput", <<CharBuf(0, -1), CharBufCount>>)

System_Page_Utilization_Query_Layout ==
  Reply("vmApiSystemPageUtilizationQueryOutput", <<CharBuf(0, -1), CharBufCount>>)

System_Performance_Information_Query_Layout ==
  Reply("vmApiSystemPerformanceInformationQueryOutput", <<CharBuf(0, -1), CharBufCount,
      ErrorBuffPtr, ErrorBuffLen>>)

System_Performance_Threshold_Disable_Layout ==
  Plain("vmApiSystemPerformanceThresholdDisableOutput")

System_Performance_Threshold_Enable_Layout ==
  Plain("vmApiSystemPerformanceThresholdEnableOutput")

System_Processor_Query_Layout ==
  Reply("vmApiSystemProcessorQueryOutput", <<String(4, 10), ArrayLen, StructCount>>)
  \o Part(1, 1, "vmApiSystemProcessorArray", <<NoBufferStructLen, String(15, 31)>>)
  \o Part(0, 0, "vmApiSystemProcessorQueryOutput", <<ErrorBuffPtr, ErrorBuffLen>>)

System_RDR_File_Manage_Layout == Plain("vmApiSystemRDRFileManageOutput")
System_SCSI_Disk_Add_Layout == Plain("vmApiSystemSCSIDiskAddOutput")
System_SCSI_Disk_Delete_Layout == Plain("vmApiSystemSCSIDiskDeleteOutput")

System_SCSI_Disk_Query_Layout ==
  Reply("vmApiSystemSCSIDiskQueryOutput", <<CStrArrayPtr, CStrArrayCount>>)
  \o Part(1, 1, "vmApiCStringInfo", <<CStrStructLen, CStr(4, 4)>>)
  \o Part(2, 2, "vmApiSystemSCSIDiskQueryOutput", <<CStrArrayPtr, CStrArrayCount>>)
  \o Part(2, 2, "vmApiCStringInfo", <<CStrStructLen, CStr(4, 4)>>)

System_Service_Query_Layout ==
  Reply("vmApiSystemServiceQueryOutput", <<CharBuf(0, -1), CharBufCount, ErrorBuffPtr,
      ErrorBuffLen>>)

System_Shutdown_Layout ==
  Reply("vmApiSystemShutdownOutput", <<ErrorBuffPtr, ErrorBuffLen>>)

System_Spool_Utilization_Query_Layout ==
  Reply("vmApiSystemSpoolUtilizationQueryOutput", <<ArrayLen, StructCount>>)
  \o Part(1, 1, "vmApiCStringInfo", <<NoBufferStructLen, CStr(1, 75)>>)

System_WWPN_Query_Layout ==
  Reply("vmApiSystemWWPNQueryOutput", <<CStrArrayPtr, CStrArrayCount>>)
  \o Part(1, 1, "vmApiCStringInfo", <<CStrStructLen, CStr(4, 4)>>)

-----------------------------------------------------------------------------
(* vmapiUnDocumented.h *)

Image_IPL_Device_Query_Layout ==
  Reply("vmApiImageIplDeviceQueryOutput", <<CStr(4, 4)>>)

Image_Performance_Query_Layout ==
  Reply("vmApiImagePerformanceQueryOutput", <<ArrayCount, StructCount>>)
  \o Part(1, 1, "vmApiImagePerformanceRecord", <<StructLen, Int4, Int4, Int8, Int8, Int8, Int8,
        Int8, Int8, Int4, Int4, Int4, Int4, Int4, Int4, Int4, Int4, Int4, Int4, Int4, Int4,
        Fixed(8)>>)

IPaddr_Get_Layout ==
  Reply("vmApiIPaddrGetOutput", <<CStrArrayPtr, CStrArrayCount>>)
  \o Part(1, 1, "vmApiCStringInfo", <<CStrStructLen, CStr(4, 4)>>)

System_Info_Query_Layout ==
  Reply("vmApiSystemInfoQueryOutput", <<CStr(4, 43), CStr(4, 43), CStr(4, 80), CStr(4, 43),
      CStr(4, 43), CStr(4, 80)>>)

System_IO_Query_Layout ==
  Reply("vmApiSystemIoQueryOutput", <<CStrArrayPtr, CStrArrayCount>>)
  \o Part(1, 1, "vmApiCStringInfo", <<CStrStructLen, CStr(4, 4)>>)

System_Performance_Info_Query_Layout ==
  Reply("vmApiSystemPerformanceInfoQueryOutput", <<CStrArrayPtr, CStrArrayCount>>)
  \o Part(1, 1, "vmApiCStringInfo", <<CStrStructLen, CStr(4, 4)>>)

Virtual_Network_Query_LAN_Layout ==
  Reply("vmApiVirtualNetworkQueryLanOutput", <<CStrArrayPtr, CStrArrayCount>>)
  \o Part(1, 1, "vmApiCStringInfo", <<CStrStructLen, CStr(4, 4)>>)

Virtual_Network_Query_OSA_Layout ==
  Reply("vmApiVirtualNetworkQueryOsaOutput", <<CStrArrayPtr, CStrArrayCount>>)
  \o Part(1, 1, "vmApiCStringInfo", <<CStrStructLen, CStr(4, 4)>>)

Virtual_Network_Vswitch_Query_IUO_Stats_Layout ==
  Reply("vmApiVirtualNetworkVswitchQueryIUOStatsOutput", <<CStrArrayPtr, CStrArrayCount>>)
  \o Part(1, 1, "vmApiCStringInfo", <<CStrStructLen, CStr(4, 4)>>)

xCAT_Commands_IUO_Layout ==
  Reply("vmApiXCATCommandsIUOOutput", <<CharBuf(0, -1), CharBufCount, ErrorBuffLen,
      ErrorBuffPtr>>)

-----------------------------------------------------------------------------
(* vmapiVMRM.h *)

VMRM_Configuration_Query_Layout ==
  Reply("vmApiVmrmConfigurationQueryOutput", <<CharBuf(1, -1), CharBufCount>>)

VMRM_Configuration_Update_Layout ==
  Reply("vmApiVmrmConfigurationUpdateOutput", <<ArrayLen, StructCount>>)
  \o Part(1, 1, "vmApiVmrmConfigurationLogRecordInfo", <<NoBufferStructLen, CharBuf(1, -1),
        CharBufCount>>)

VMRM_Measurement_Query_Layout ==
  Reply("vmApiVmrmMeasurementQueryOutput", <<String(1, 17), String(1, 20), String(1, 17),
      ArrayLen, StructCount>>)
  \o Part(1, 1, "vmApiVmrmMeasurementQueryWorkloadInfo", <<NoBufferStructLen, CharBuf(1, 35),
        CharBufCount>>)

-----------------------------------------------------------------------------
(* vmapiVMRelocate.h *)

VMRELOCATE_Layout ==
  Reply("vmApiVMRelocateOutput", <<ErrorBuffLen, ErrorBuffPtr>>)

VMRELOCATE_Image_Attributes_Layout == Plain("vmApiVMRelocateImageAttributesOutput")

VMRELOCATE_Modify_Layout ==
  Reply("vmApiVMRelocateModifyOutput", <<ErrorBuffLen, ErrorBuffPtr>>)

VMRELOCATE_Status_Layout ==
  Reply("vmApiVMRelocateStatusOutput", <<CStrArrayPtr, CStrArrayCount>>)
  \o Part(1, 1, "vmApiCStringInfo", <<CStrStructLen, CStr(4, 4)>>)

-----------------------------------------------------------------------------
(* vmapiVirtual.h *)

Virtual_Channel_Connection_Create_Layout == Plain("vmApiVirtualChannelConnectionCreateOutput")

Virtual_Channel_Connection_Create_DM_Layout ==
  Plain("vmApiVirtualChannelConnectionCreateDmOutput")

Virtual_Channel_Connection_Delete_Layout == Plain("vmApiVirtualChannelConnectionDeleteOutput")

Virtual_Channel_Connection_Delete_DM_Layout ==
  Plain("vmApiVirtualChannelConnectionDeleteDmOutput")

Virtual_Network_Adapter_Connect_LAN_Layout ==
  Plain("vmApiVirtualNetworkAdapterConnectLanOutput")

Virtual_Network_Adapter_Connect_LAN_DM_Layout ==
  Plain("vmApiVirtualNetworkAdapterConnectLanDmOutput")

Virtual_Network_Adapter_Connect_Vswitch_Layout ==
  Plain("vmApiVirtualNetworkAdapterConnectVswitchOutput")

Virtual_Network_Adapter_Connect_Vswitch_DM_Layout ==
  Plain("vmApiVirtualNetworkAdapterConnectVswitchDmOutput")

Virtual_Network_Adapter_Connect_Vswitch_Extended_Layout ==
  Plain("vmApiVirtualNetworkAdapterConnectVswitchExtendedOutput")

Virtual_Network_Adapter_Create_Layout == Plain("vmApiVirtualNetworkAdapterCreateOutput")
Virtual_Network_Adapter_Create_DM_Layout == Plain("vmApiVirtualNetworkAdapterCreateDmOutput")

Virtual_Network_Adapter_Create_Extended_Layout ==
  Plain("vmApiVirtualNetworkAdapterCreateExtendedOutput")

Virtual_Network_Adapter_Create_Extended_DM_Layout ==
  Plain("vmApiVirtualNetworkAdapterCreateExtendedDmOutput")

Virtual_Network_Adapter_Delete_Layout == Plain("vmApiVirtualNetworkAdapterDeleteOutput")
Virtual_Network_Adapter_Delete_DM_Layout == Plain("vmApiVirtualNetworkAdapterDeleteDmOutput")
Virtual_Network_Adapter_Disconnect_Layout == Plain("vmApiVirtualNetworkAdapterDisconnectOutput")

Virtual_Network_Adapter_Disconnect_DM_Layout ==
  Plain("vmApiVirtualNetworkAdapterDisconnectDmOutput")

Virtual_Network_Adapter_Query_Layout ==
  Reply("vmApiVirtualNetworkAdapterQueryOutput", <<ArrayLen, StructCount>>)
  \o Part(1, 1, "vmApiVirtualNetworkAdapter", <<StructLen, String(1, 4), Int1, Int4, Int1,
        String(0, 8), String(0, 8)>>)

Virtual_Network_Adapter_Query_Extended_Layout ==
  Reply("vmApiVirtualNetworkAdapterQueryExtendedOutput", <<CStrArrayPtr, CStrArrayCount>>)
  \o Part(1, 1, "vmApiCStringInfo", <<CStrStructLen, CStr(4, 4)>>)

Virtual_Network_LAN_Access_Layout == Plain("vmApiVirtualNetworkLanAccessOutput")

Virtual_Network_LAN_Access_Query_Layout ==
  Reply("vmApiVirtualNetworkLanAccessQueryOutput", <<CStrArrayPtr, CStrArrayCount>>)
  \o Part(1, 1, "vmApiCStringInfo", <<CStrStructLen, CStr(4, 4)>>)

Virtual_Network_LAN_Create_Layout == Plain("vmApiVirtualNetworkLanCreateOutput")
Virtual_Network_LAN_Delete_Layout == Plain("vmApiVirtualNetworkLanDeleteOutput")

Virtual_Network_LAN_Query_Layout ==
  Reply("vmApiVirtualNetworkLanQueryOutput", <<ArrayLen, StructCount>>)
  \o Part(1, 1, "vmApiVirtualNetworkLanInfo", <<StructLen, String(1, 8), String(1, 8), Int1,
        ArrayLen, StructCount>>)
  \o Part(2, 2, "vmApiVirtualNetworkConnectedAdapterInfo", <<StructLen, String(1, 8),
        String(1, 4)>>)

Virtual_Network_OSA_Query_Layout ==
  Reply("vmApiVirtualNetworkOsaQueryOutput", <<CStrArrayPtr, CStrArrayCount>>)
  \o Part(1, 1, "vmApiCStringInfo", <<CStrStructLen, CStr(4, 4)>>)

Virtual_Network_VLAN_Query_Stats_Layout ==
  Reply("vmApiVirtualNetworkVLANQueryStatsOutput", <<ArrayLen, StructCount>>)
  \o Part(1, 1, "vmApiPortNic_structure", <<StructLen, CStr(1, 24), ArrayLen, StructCount>>)
  \o Part(2, 2, "vmApiPsegArray_structure", <<NoBufferStructLen, CStr(1, 50)>>)

Virtual_Network_Vswitch_Create_Layout == Plain("vmApiVirtualNetworkVswitchCreateOutput")

Virtual_Network_Vswitch_Create_Extended_Layout ==
  Plain("vmApiVirtualNetworkVswitchCreateExtendedOutput")

Virtual_Network_Vswitch_Delete_Layout == Plain("vmApiVirtualNetworkVswitchDeleteOutput")

Virtual_Network_Vswitch_Delete_Extended_Layout ==
  Plain("vmApiVirtualNetworkVswitchDeleteOutput")

Virtual_Network_Vswitch_Query_Layout ==
  Reply("vmApiVirtualNetworkVswitchQueryOutput", <<ArrayLen, StructCount>>)
  \o Part(1, 1, "vmApiVswitchInfo", <<StructLen, String(1, 8), Int1, Int1, Int4, Int1, Int4,
        Int4, Int8, Int1, Int1, Int1, ArrayLen, StructCount>>)
  \o Part(2, 2, "vmApiRealDeviceInfo", <<StructLen, Int4, String(0, 71), String(0, 16), Int1,
        Int1>>)
  \o Part(1, 1, "vmApiVswitchInfo", <<ArrayLen, StructCount>>)
  \o Part(3, 2, "vmApiAuthorizedUserInfo", <<StructLen, String(1, 8), ArrayLen, StructCount>>)
  \o Part(4, 3, "vmApiVlanInfo", <<StructLen, Int4>>)
  \o Part(1, 1, "vmApiVswitchInfo", <<ArrayLen, StructCount>>)
  \o Part(5, 2, "vmApiVirtualNetworkConnectedAdapterInfo", <<StructLen, String(1, 8),
        String(1, 4)>>)

Virtual_Network_Vswitch_Query_Byte_Stats_Layout ==
  Reply("vmApiVirtualNetworkVswitchQueryByteStatsOutput", <<CStrArrayPtr, CStrArrayCount>>)
  \o Part(1, 1, "vmApiCStringInfo", <<CStrStructLen, CStr(4, 4)>>)

Virtual_Network_VSwitch_Query_Extended_Layout ==
  Reply("vmApiVirtualNetworkVswitchQueryExtendedOutput", <<ArrayCount, StructCount>>)
  \o Part(1, 1, "vswitch_array_structure", <<StructLen, Int4, CStr(1, 400), ArrayLen,
        StructCount>>)
  \o Part(2, 2, "real_device_info_structure", <<NoBufferStructLen, CStr(0, 90)>>)
  \o Part(1, 1, "vswitch_array_structure", <<ArrayLen, StructCount>>)
  \o Part(3, 3, "authorized_user_structure", <<NoBufferStructLen, CStr(0, -1)>>)
  \o Part(1, 1, "vswitch_array_structure", <<ArrayLen, StructCount>>)
  \o Part(4, 4, "connected_adapter_structure", <<NoBufferStructLen, CStr(0, 41)>>)
  \o Part(1, 1, "vswitch_array_structure", <<ArrayLen, StructCount>>)
  \o Part(5, 5, "uplink_NIC_structure", <<NoBufferStructLen, CStr(0, 15)>>)
  \o Part(1, 1, "vswitch_array_structure", <<ArrayLen, StructCount>>)
  \o Part(6, 6, "global_member_structure", <<NoBufferStructLen, CStr(0, 99)>>)

Virtual_Network_Vswitch_Query_Stats_Layout ==
  Reply("vmApiVirtualNetworkVswitchQueryStatsOutput", <<ArrayLen, StructCount>>)
  \o Part(1, 1, "vmApiVswitch_structure", <<NoBufferStructLen, String(1, 8), ArrayLen,
        StructCount>>)
  \o Part(2, 2, "vmApiVswitchPsegArray_structure", <<NoBufferStructLen, CStr(1, 111)>>)

Virtual_Network_Vswitch_Set_Layout == Plain("vmApiVirtualNetworkVswitchSetOutput")

Virtual_Network_Vswitch_Set_Extended_Layout ==
  Plain("vmApiVirtualNetworkVswitchSetExtendedOutput")


-----------------------------------------------------------------------------
(* The table of each request, by the name of the request. *)
Tables ==
  [Asynchronous_Notification_Disable_DM |-> Asynchronous_Notification_Disable_DM_Layout,
   Asynchronous_Notification_Enable_DM |-> Asynchronous_Notification_Enable_DM_Layout,
   Asynchronous_Notification_Query_DM |-> Asynchronous_Notification_Query_DM_Layout,
   Authorization_List_Add |-> Authorization_List_Add_Layout,
   Authorization_List_Query |-> Authorization_List_Query_Layout,
   Authorization_List_Remove |-> Authorization_List_Remove_Layout,
   Check_Authentication |-> Check_Authentication_Layout,
   Delete_ABEND_Dump |-> Delete_ABEND_Dump_Layout,
   Directory_Manager_Local_Tag_Define_DM |-> Directory_Manager_Local_Tag_Define_DM_Layout,
   Directory_Manager_Local_Tag_Delete_DM |-> Directory_Manager_Local_Tag_Delete_DM_Layout,
   Directory_Manager_Local_Tag_Query_DM |-> Directory_Manager_Local_Tag_Query_DM_Layout,
   Directory_Manager_Local_Tag_Set_DM |-> Directory_Manager_Local_Tag_Set_DM_Layout,
   Directory_Manager_Search_DM |-> Directory_Manager_Search_DM_Layout,
   Directory_Manager_Task_Cancel_DM |-> Directory_Manager_Task_Cancel_DM_Layout,
   Event_Stream_Add |-> Event_Stream_Add_Layout, Event_Subscribe |-> Event_Subscribe_Layout,
   Event_Unsubscribe |-> Event_Unsubscribe_Layout, Image_Activate |-> Image_Activate_Layout,
   Image_Active_Configuration_Query |-> Image_Active_Configuration_Query_Layout,
   Image_CPU_Define |-> Image_CPU_Define_Layout,
   Image_CPU_Define_DM |-> Image_CPU_Define_DM_Layout,
   Image_CPU_Delete |-> Image_CPU_Delete_Layout,
   Image_CPU_Delete_DM |-> Image_CPU_Delete_DM_Layout,
   Image_CPU_Query |-> Image_CPU_Query_Layout, Image_CPU_Query_DM |-> Image_CPU_Query_DM_Layout,
   Image_CPU_Set_Maximum_DM |-> Image_CPU_Set_Maximum_DM_Layout,
   Image_Create_DM |-> Image_Create_DM_Layout, Image_Deactivate |-> Image_Deactivate_Layout,
   Image_Delete_DM |-> Image_Delete_DM_Layout,
   Image_Device_Dedicate |-> Image_Device_Dedicate_Layout,
   Image_Device_Dedicate_DM |-> Image_Device_Dedicate_DM_Layout,
   Image_Device_Reset |-> Image_Device_Reset_Layout,
   Image_Device_Undedicate |-> Image_Device_Undedicate_Layout,
   Image_Device_Undedicate_DM |-> Image_Device_Undedicate_DM_Layout,
   Image_Disk_Copy |-> Image_Disk_Copy_Layout, Image_Disk_Copy_DM |-> Image_Disk_Copy_DM_Layout,
   Image_Disk_Create |-> Image_Disk_Create_Layout,
   Image_Disk_Create_DM |-> Image_Disk_Create_DM_Layout,
   Image_Disk_Delete |-> Image_Disk_Delete_Layout,
   Image_Disk_Delete_DM |-> Image_Disk_Delete_DM_Layout,
   Image_Disk_Query |-> Image_Disk_Query_Layout, Image_Disk_Share |-> Image_Disk_Share_Layout,
   Image_Disk_Share_DM |-> Image_Disk_Share_DM_Layout,
   Image_Disk_Unshare |-> Image_Disk_Unshare_Layout,
   Image_Disk_Unshare_DM |-> Image_Disk_Unshare_DM_Layout,
   Image_IPL_Delete_DM |-> Image_IPL_Delete_DM_Layout,
   Image_IPL_Query_DM |-> Image_IPL_Query_DM_Layout,
   Image_IPL_Set_DM |-> Image_IPL_Set_DM_Layout, Image_Lock_DM |-> Image_Lock_DM_Layout,
   Image_Lock_Query_DM |-> Image_Lock_Query_DM_Layout,
   Image_MDISK_Link_Query |-> Image_MDISK_Link_Query_Layout,
   Image_Name_Query_DM |-> Image_Name_Query_DM_Layout,
   Image_Password_Set_DM |-> Image_Password_Set_DM_Layout, Image_Pause |-> Image_Pause_Layout,
   Image_Query_Activate_Time |-> Image_Query_Activate_Time_Layout,
   Image_Query_DM |-> Image_Query_DM_Layout, Image_Recycle |-> Image_Recycle_Layout,
   Image_Replace_DM |-> Image_Replace_DM_Layout,
   Image_SCSI_Characteristics_Define_DM |-> Image_SCSI_Characteristics_Define_DM_Layout,
   Image_SCSI_Characteristics_Query_DM |-> Image_SCSI_Characteristics_Query_DM_Layout,
   Image_Status_Query |-> Image_Status_Query_Layout, Image_Unlock_DM |-> Image_Unlock_DM_Layout,
   Image_Volume_Add |-> Image_Volume_Add_Layout,
   Image_Volume_Delete |-> Image_Volume_Delete_Layout,
   Image_Volume_Share |-> Image_Volume_Share_Layout,
   Image_Volume_Space_Define_DM |-> Image_Volume_Space_Define_DM_Layout,
   Image_Volume_Space_Define_Extended_DM |-> Image_Volume_Space_Define_Extended_DM_Layout,
   Image_Volume_Space_Query_DM |-> Image_Volume_Space_Query_DM_Layout,
   Image_Volume_Space_Query_Extended_DM |-> Image_Volume_Space_Query_Extended_DM_Layout,
   Image_Volume_Space_Remove_DM |-> Image_Volume_Space_Remove_DM_Layout,
   Image_Console_Get |-> Image_Console_Get_Layout,
   Image_Definition_Async_Updates |-> Image_Definition_Async_Updates_Layout,
   Image_Definition_Create_DM |-> Image_Definition_Create_DM_Layout,
   Image_Definition_Delete_DM |-> Image_Definition_Delete_DM_Layout,
   Image_Definition_Query_DM |-> Image_Definition_Query_DM_Layout,
   Image_Definition_Update_DM |-> Image_Definition_Update_DM_Layout,
   Metadata_Delete |-> Metadata_Delete_Layout, Metadata_Get |-> Metadata_Get_Layout,
   Metadata_Set |-> Metadata_Set_Layout, Metadata_Space_Query |-> Metadata_Space_Query_Layout,
   Name_List_Add |-> Name_List_Add_Layout, Name_List_Destroy |-> Name_List_Destroy_Layout,
   Name_List_Query |-> Name_List_Query_Layout, Name_List_Remove |-> Name_List_Remove_Layout,
   Network_IP_Interface_Create |-> Network_IP_Interface_Create_Layout,
   Network_IP_Interface_Modify |-> Network_IP_Interface_Modify_Layout,
   Network_IP_Interface_Query |-> Network_IP_Interface_Query_Layout,
   Network_IP_Interface_Remove |-> Network_IP_Interface_Remove_Layout,
   Page_or_Spool_Volume_Add |-> Page_or_Spool_Volume_Add_Layout,
   Process_ABEND_Dump |-> Process_ABEND_Dump_Layout,
   Profile_Create_DM |-> Profile_Create_DM_Layout,
   Profile_Delete_DM |-> Profile_Delete_DM_Layout, Profile_Lock_DM |-> Profile_Lock_DM_Layout,
   Profile_Lock_Query_DM |-> Profile_Lock_Query_DM_Layout,
   Profile_Query_DM |-> Profile_Query_DM_Layout,
   Profile_Replace_DM |-> Profile_Replace_DM_Layout,
   Profile_Unlock_DM |-> Profile_Unlock_DM_Layout,
   Prototype_Create_DM |-> Prototype_Create_DM_Layout,
   Prototype_Delete_DM |-> Prototype_Delete_DM_Layout,
   Prototype_Name_Query_DM |-> Prototype_Name_Query_DM_Layout,
   Prototype_Query_DM |-> Prototype_Query_DM_Layout,
   Prototype_Replace_DM |-> Prototype_Replace_DM_Layout,
   Query_ABEND_Dump |-> Query_ABEND_Dump_Layout, Query_All_DM_YES |-> Query_All_DM_YES_Layout,
   Query_All_DM_NO |-> Query_All_DM_NO_Layout,
   Query_API_Functional_Level |-> Query_API_Functional_Level_Layout,
   Query_Asynchronous_Operation_DM |-> Query_Asynchronous_Operation_DM_Layout,
   Query_Directory_Manager_Level_DM |-> Query_Directory_Manager_Level_DM_Layout,
   Response_Recovery |-> Response_Recovery_Layout,
   SMAPI_Status_Capture |-> SMAPI_Status_Capture_Layout, SSI_Query |-> SSI_Query_Layout,
   Shared_Memory_Access_Add_DM |-> Shared_Memory_Access_Add_DM_Layout,
   Shared_Memory_Access_Query_DM |-> Shared_Memory_Access_Query_DM_Layout,
   Shared_Memory_Access_Remove_DM |-> Shared_Memory_Access_Remove_DM_Layout,
   Shared_Memory_Create |-> Shared_Memory_Create_Layout,
   Shared_Memory_Delete |-> Shared_Memory_Delete_Layout,
   Shared_Memory_Query |-> Shared_Memory_Query_Layout,
   Shared_Memory_Replace |-> Shared_Memory_Replace_Layout,
   Static_Image_Changes_Activate_DM |-> Static_Image_Changes_Activate_DM_Layout,
   Static_Image_Changes_Deactivate_DM |-> Static_Image_Changes_Deactivate_DM_Layout,
   Static_Image_Changes_Immediate_DM |-> Static_Image_Changes_Immediate_DM_Layout,
   System_Config_Syntax_Check |-> System_Config_Syntax_Check_Layout,
   System_Disk_Accessibility |-> System_Disk_Accessibility_Layout,
   System_Disk_Add |-> System_Disk_Add_Layout,
   System_Disk_IO_Query |-> System_Disk_IO_Query_Layout,
   System_Disk_Query |-> System_Disk_Query_Layout,
   System_EQID_Query |-> System_EQID_Query_Layout,
   System_FCP_Free_Query |-> System_FCP_Free_Query_Layout,
   System_Image_Performance_Query |-> System_Image_Performance_Query_Layout,
   System_Information_Query |-> System_Information_Query_Layout,
   System_Page_Utilization_Query |-> System_Page_Utilization_Query_Layout,
   System_Performance_Information_Query |-> System_Performance_Information_Query_Layout,
   System_Performance_Threshold_Disable |-> System_Performance_Threshold_Disable_Layout,
   System_Performance_Threshold_Enable |-> System_Performance_Threshold_Enable_Layout,
   System_Processor_Query |-> System_Processor_Query_Layout,
   System_RDR_File_Manage |-> System_RDR_File_Manage_Layout,
   System_SCSI_Disk_Add |-> System_SCSI_Disk_Add_Layout,
   System_SCSI_Disk_Delete |-> System_SCSI_Disk_Delete_Layout,
   System_SCSI_Disk_Query |-> System_SCSI_Disk_Query_Layout,
   System_Service_Query |-> System_Service_Query_Layout,
   System_Shutdown |-> System_Shutdown_Layout,
   System_Spool_Utilization_Query |-> System_Spool_Utilization_Query_Layout,
   System_WWPN_Query |-> System_WWPN_Query_Layout,
   Image_IPL_Device_Query |-> Image_IPL_Device_Query_Layout,
   Image_Performance_Query |-> Image_Performance_Query_Layout, IPaddr_Get |-> IPaddr_Get_Layout,
   System_Info_Query |-> System_Info_Query_Layout, System_IO_Query |-> System_IO_Query_Layout,
   System_Performance_Info_Query |-> System_Performance_Info_Query_Layout,
   Virtual_Network_Query_LAN |-> Virtual_Network_Query_LAN_Layout,
   Virtual_Network_Query_OSA |-> Virtual_Network_Query_OSA_Layout,
   Virtual_Network_Vswitch_Query_IUO_Stats |-> Virtual_Network_Vswitch_Query_IUO_Stats_Layout,
   xCAT_Commands_IUO |-> xCAT_Commands_IUO_Layout,
   VMRM_Configuration_Query |-> VMRM_Configuration_Query_Layout,
   VMRM_Configuration_Update |-> VMRM_Configuration_Update_Layout,
   VMRM_Measurement_Query |-> VMRM_Measurement_Query_Layout, VMRELOCATE |-> VMRELOCATE_Layout,
   VMRELOCATE_Image_Attributes |-> VMRELOCATE_Image_Attributes_Layout,
   VMRELOCATE_Modify |-> VMRELOCATE_Modify_Layout,
   VMRELOCATE_Status |-> VMRELOCATE_Status_Layout,
   Virtual_Channel_Connection_Create |-> Virtual_Channel_Connection_Create_Layout,
   Virtual_Channel_Connection_Create_DM |-> Virtual_Channel_Connection_Create_DM_Layout,
   Virtual_Channel_Connection_Delete |-> Virtual_Channel_Connection_Delete_Layout,
   Virtual_Channel_Connection_Delete_DM |-> Virtual_Channel_Connection_Delete_DM_Layout,
   Virtual_Network_Adapter_Connect_LAN |-> Virtual_Network_Adapter_Connect_LAN_Layout,
   Virtual_Network_Adapter_Connect_LAN_DM |-> Virtual_Network_Adapter_Connect_LAN_DM_Layout,
   Virtual_Network_Adapter_Connect_Vswitch |-> Virtual_Network_Adapter_Connect_Vswitch_Layout,
   Virtual_Network_Adapter_Connect_Vswitch_DM |-> Virtual_Network_Adapter_Connect_Vswitch_DM_Layout,
   Virtual_Network_Adapter_Connect_Vswitch_Extended |-> Virtual_Network_Adapter_Connect_Vswitch_Extended_Layout,
   Virtual_Network_Adapter_Create |-> Virtual_Network_Adapter_Create_Layout,
   Virtual_Network_Adapter_Create_DM |-> Virtual_Network_Adapter_Create_DM_Layout,
   Virtual_Network_Adapter_Create_Extended |-> Virtual_Network_Adapter_Create_Extended_Layout,
   Virtual_Network_Adapter_Create_Extended_DM |-> Virtual_Network_Adapter_Create_Extended_DM_Layout,
   Virtual_Network_Adapter_Delete |-> Virtual_Network_Adapter_Delete_Layout,
   Virtual_Network_Adapter_Delete_DM |-> Virtual_Network_Adapter_Delete_DM_Layout,
   Virtual_Network_Adapter_Disconnect |-> Virtual_Network_Adapter_Disconnect_Layout,
   Virtual_Network_Adapter_Disconnect_DM |-> Virtual_Network_Adapter_Disconnect_DM_Layout,
   Virtual_Network_Adapter_Query |-> Virtual_Network_Adapter_Query_Layout,
   Virtual_Network_Adapter_Query_Extended |-> Virtual_Network_Adapter_Query_Extended_Layout,
   Virtual_Network_LAN_Access |-> Virtual_Network_LAN_Access_Layout,
   Virtual_Network_LAN_Access_Query |-> Virtual_Network_LAN_Access_Query_Layout,
   Virtual_Network_LAN_Create |-> Virtual_Network_LAN_Create_Layout,
   Virtual_Network_LAN_Delete |-> Virtual_Network_LAN_Delete_Layout,
   Virtual_Network_LAN_Query |-> Virtual_Network_LAN_Query_Layout,
   Virtual_Network_OSA_Query |-> Virtual_Network_OSA_Query_Layout,
   Virtual_Network_VLAN_Query_Stats |-> Virtual_Network_VLAN_Query_Stats_Layout,
   Virtual_Network_Vswitch_Create |-> Virtual_Network_Vswitch_Create_Layout,
   Virtual_Network_Vswitch_Create_Extended |-> Virtual_Network_Vswitch_Create_Extended_Layout,
   Virtual_Network_Vswitch_Delete |-> Virtual_Network_Vswitch_Delete_Layout,
   Virtual_Network_Vswitch_Delete_Extended |-> Virtual_Network_Vswitch_Delete_Extended_Layout,
   Virtual_Network_Vswitch_Query |-> Virtual_Network_Vswitch_Query_Layout,
   Virtual_Network_Vswitch_Query_Byte_Stats |-> Virtual_Network_Vswitch_Query_Byte_Stats_Layout,
   Virtual_Network_VSwitch_Query_Extended |-> Virtual_Network_VSwitch_Query_Extended_Layout,
   Virtual_Network_Vswitch_Query_Stats |-> Virtual_Network_Vswitch_Query_Stats_Layout,
   Virtual_Network_Vswitch_Set |-> Virtual_Network_Vswitch_Set_Layout,
   Virtual_Network_Vswitch_Set_Extended |-> Virtual_Network_Vswitch_Set_Extended_Layout]

(* The vmapi functions that announce an error buffer in a refusal, with or  *)
(* without a length in front of it (smapiErrorBufferPossible).             *)
ErrorsWithLength == {"Event_Stream_Add", "Image_Definition_Create_DM",
  "Image_Definition_Delete_DM", "Image_Definition_Query_DM", "Image_Definition_Update_DM",
  "Metadata_Delete", "Metadata_Get", "Metadata_Set", "Network_IP_Interface_Create",
  "Network_IP_Interface_Modify", "Network_IP_Interface_Remove", "System_EQID_Query",
  "System_Information_Query", "System_Page_Utilization_Query",
  "System_Performance_Information_Query", "System_Service_Query",
  "System_Spool_Utilization_Query", "xCAT_Commands_IUO"}
ErrorsWithoutLength == {"System_Config_Syntax_Check", "VMRELOCATE", "VMRELOCATE_Modify"}
=============================================================================
