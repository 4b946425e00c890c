------------------------------ MODULE Protocol ------------------------------
(***************************************************************************)
(* The API registry of pkg/fmsg and the version negotiation of a            *)
(* connection: which message an API key sends and expects, which versions    *)
(* this client speaks, which one it uses with a given server, and when a     *)
(* request may leave the client at all.  APIs the client never calls, and    *)
(* the private ones between servers, are not listed.                        *)
(***************************************************************************)
EXTENDS Messages

newRequestProto ==
  [AcquireKvSnapshotLease |-> AcquireKvSnapshotLeaseRequest,
   AddServerTag |-> AddServerTagRequest, AlterClusterConfigs |-> AlterClusterConfigsRequest,
   AlterDatabase |-> AlterDatabaseRequest, AlterTable |-> AlterTableRequest,
   ApiVersions |-> ApiVersionsRequest, Authenticate |-> AuthenticateRequest,
   CancelRebalance |-> CancelRebalanceRequest, CreateAcls |-> CreateAclsRequest,
   CreateDatabase |-> CreateDatabaseRequest, CreatePartition |-> CreatePartitionRequest,
   CreateTable |-> CreateTableRequest, DatabaseExists |-> DatabaseExistsRequest,
   DeleteProducerOffsets |-> DeleteProducerOffsetsRequest,
   DescribeClusterConfigs |-> DescribeClusterConfigsRequest, DropAcls |-> DropAclsRequest,
   DropDatabase |-> DropDatabaseRequest, DropKvSnapshotLease |-> DropKvSnapshotLeaseRequest,
   DropPartition |-> DropPartitionRequest, DropTable |-> DropTableRequest,
   FetchLog |-> FetchLogRequest, GetClusterHealth |-> GetClusterHealthRequest,
   GetDatabaseInfo |-> GetDatabaseInfoRequest,
   GetFilesystemSecurityToken |-> GetFileSystemSecurityTokenRequest,
   GetKvSnapshotMetadata |-> GetKvSnapshotMetadataRequest,
   GetLakeSnapshot |-> GetLakeSnapshotRequest,
   GetLatestKvSnapshots |-> GetLatestKvSnapshotsRequest, GetMetadata |-> MetadataRequest,
   GetProducerOffsets |-> GetProducerOffsetsRequest, GetTableInfo |-> GetTableInfoRequest,
   GetTableSchema |-> GetTableSchemaRequest, GetTableStats |-> GetTableStatsRequest,
   InitWriter |-> InitWriterRequest, LimitScan |-> LimitScanRequest,
   ListAcls |-> ListAclsRequest, ListDatabases |-> ListDatabasesRequest,
   ListKvSnapshots |-> ListKvSnapshotsRequest, ListOffsets |-> ListOffsetsRequest,
   ListPartitionInfos |-> ListPartitionInfosRequest,
   ListRebalanceProgress |-> ListRebalanceProgressRequest,
   ListRemoteLogManifests |-> ListRemoteLogManifestsRequest, ListTables |-> ListTablesRequest,
   Lookup |-> LookupRequest, PrefixLookup |-> PrefixLookupRequest,
   ProduceLog |-> ProduceLogRequest, PutKv |-> PutKvRequest, Rebalance |-> RebalanceRequest,
   RegisterProducerOffsets |-> RegisterProducerOffsetsRequest,
   ReleaseKvSnapshotLease |-> ReleaseKvSnapshotLeaseRequest,
   RemoveServerTag |-> RemoveServerTagRequest, ScanKv |-> ScanKvRequest,
   TableExists |-> TableExistsRequest]

newResponseProto ==
  [AcquireKvSnapshotLease |-> AcquireKvSnapshotLeaseResponse,
   AddServerTag |-> AddServerTagResponse, AlterClusterConfigs |-> AlterClusterConfigsResponse,
   AlterDatabase |-> AlterDatabaseResponse, AlterTable |-> AlterTableResponse,
   ApiVersions |-> ApiVersionsResponse, Authenticate |-> AuthenticateResponse,
   CancelRebalance |-> CancelRebalanceResponse, CreateAcls |-> CreateAclsResponse,
   CreateDatabase |-> CreateDatabaseResponse, CreatePartition |-> CreatePartitionResponse,
   CreateTable |-> CreateTableResponse, DatabaseExists |-> DatabaseExistsResponse,
   DeleteProducerOffsets |-> DeleteProducerOffsetsResponse,
   DescribeClusterConfigs |-> DescribeClusterConfigsResponse, DropAcls |-> DropAclsResponse,
   DropDatabase |-> DropDatabaseResponse, DropKvSnapshotLease |-> DropKvSnapshotLeaseResponse,
   DropPartition |-> DropPartitionResponse, DropTable |-> DropTableResponse,
   FetchLog |-> FetchLogResponse, GetClusterHealth |-> GetClusterHealthResponse,
   GetDatabaseInfo |-> GetDatabaseInfoResponse,
   GetFilesystemSecurityToken |-> GetFileSystemSecurityTokenResponse,
   GetKvSnapshotMetadata |-> GetKvSnapshotMetadataResponse,
   GetLakeSnapshot |-> GetLakeSnapshotResponse,
   GetLatestKvSnapshots |-> GetLatestKvSnapshotsResponse, GetMetadata |-> MetadataResponse,
   GetProducerOffsets |-> GetProducerOffsetsResponse, GetTableInfo |-> GetTableInfoResponse,
   GetTableSchema |-> GetTableSchemaResponse, GetTableStats |-> GetTableStatsResponse,
   InitWriter |-> InitWriterResponse, LimitScan |-> LimitScanResponse,
   ListAcls |-> ListAclsResponse, ListDatabases |-> ListDatabasesResponse,
   ListKvSnapshots |-> ListKvSnapshotsResponse, ListOffsets |-> ListOffsetsResponse,
   ListPartitionInfos |-> ListPartitionInfosResponse,
   ListRebalanceProgress |-> ListRebalanceProgressResponse,
   ListRemoteLogManifests |-> ListRemoteLogManifestsResponse, ListTables |-> ListTablesResponse,
   Lookup |-> LookupResponse, PrefixLookup |-> PrefixLookupResponse,
   ProduceLog |-> ProduceLogResponse, PutKv |-> PutKvResponse, Rebalance |-> RebalanceResponse,
   RegisterProducerOffsets |-> RegisterProducerOffsetsResponse,
   ReleaseKvSnapshotLease |-> ReleaseKvSnapshotLeaseResponse,
   RemoveServerTag |-> RemoveServerTagResponse, ScanKv |-> ScanKvResponse,
   TableExists |-> TableExistsResponse]

APIKeys == DOMAIN newRequestProto

\* Every API starts at version 0; these have later versions.
generatedAPIs ==
  [key \in APIKeys |->
     [MinVersion |-> 0,
      MaxVersion |-> CASE key = "PutKv" -> 3
                       [] key \in {"ProduceLog", "Lookup", "PrefixLookup", "AlterTable",
                                   "GetKvSnapshotMetadata"} -> 1
                       [] OTHER -> 0]]

LookupAPIKey(key) == key \in APIKeys

validateAPI(key, version) ==
  /\ LookupAPIKey(key)
  /\ generatedAPIs[key].MinVersion =< version
  /\ version =< generatedAPIs[key].MaxVersion

\* A request before it is sent: NewRequest always starts at version 0.
NewRequest(key, message) == [APIKey |-> key, Version |-> 0, Message |-> message]

\* SetVersion leaves a request alone when the registry refuses the version.
SetVersion(request, version) ==
  IF validateAPI(request.APIKey, version) THEN [request EXCEPT !.Version = version] ELSE request

Marshals(request) == Complete(newRequestProto[request.APIKey], request.Message)

Unmarshals(key, message) == Complete(newResponseProto[key], message)
-----------------------------------------------------------------------------
\* What a server offers is a function from API keys (some of them unknown to
\* this client) to the versions it accepts.
Overlaps(key, server) ==
  /\ server.MaxVersion >= generatedAPIs[key].MinVersion
  /\ server.MinVersion =< generatedAPIs[key].MaxVersion

Smaller(left, right) == IF left < right THEN left ELSE right

\* A client that always speaks its own latest version.
negotiateLatest(offered) ==
  LET common == {key \in DOMAIN offered \cap APIKeys : Overlaps(key, offered[key])}
  IN [key \in common |-> generatedAPIs[key].MaxVersion]

negotiate(offered) ==
  LET common == {key \in DOMAIN offered \cap APIKeys : Overlaps(key, offered[key])}
  IN [key \in common |-> Smaller(generatedAPIs[key].MaxVersion, offered[key].MaxVersion)]

\* The handshake fails with a server that does not share API_VERSIONS.
Negotiates(offered) == "ApiVersions" \in DOMAIN negotiate(offered)
=============================================================================
