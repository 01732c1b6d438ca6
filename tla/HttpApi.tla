------------------------------- MODULE HttpApi -------------------------------
(***************************************************************************)
(* The HTTP interface: how a message becomes a call of a service and its   *)
(* answer.  Three tables say, as the code does, which handler a route      *)
(* leads to, what a handler decodes and where it takes the id of the       *)
(* resource from, and what the type it decodes into demands.  A message is *)
(* routed, bound (JSON, form or query), validated, finished (PostBind),    *)
(* handed to the service and answered.                                     *)
(*                                                                         *)
(* A message is abstracted to how it is encoded, whether its body can be   *)
(* read, which demanded field it lacks, whether it carries an id of its    *)
(* own besides the one in the path, and whether the values that are parsed *)
(* further (a URL, base64, a number, a file) are well formed.              *)
(***************************************************************************)
EXTENDS Naturals, Sequences

VARIABLES
  stage,    \* how far the message has come
  msg,      \* the message being handled
  target,   \* where the id came from: the path, the message, or nowhere
  ran,      \* the service was called
  wrote     \* what was written to the client, in order

httpVars == <<stage, msg, target, ran, wrote>>
-----------------------------------------------------------------------------
(* Routes: a method, the handler, named by controller and method, and      *)
(* whether the path names a resource.                                      *)
R(method, controller, names) == {method} \X {controller} \X names \X {FALSE}
RId(method, controller, names) == {method} \X {controller} \X names \X {TRUE}

installPlatformApis ==
  R("GET", "platform",
    {"Me", "ListProviderPresets", "ListProviders", "GetSystemLLMConfig", "ListStorageBackends",
     "ListAssets", "ListTasks"})
  \cup RId("GET", "platform",
    {"ListProviderModels", "GetAsset", "GetAssetContent", "GetAssetThumbnail", "GetTask",
     "TaskEvents", "GetCanvasRun"})
  \cup R("POST", "platform",
    {"CreateProvider", "CreateStorageBackend", "UploadAsset", "InitAssetChunkUpload",
     "SearchAssets", "ParseAssetSearch", "CreateAssetGroup", "DownloadCanvasAssets",
     "RegisterCanvasOutput", "CreateTask"})
  \cup RId("POST", "platform",
    {"InstallProviderPreset", "TestProvider", "CreateProviderModel", "SyncProviderModels",
     "CompleteAssetChunkUpload", "CancelTask", "RunCanvas", "RunCanvasNode", "CancelCanvasRun"})
  \cup RId("PATCH", "platform",
    {"UpdateProvider", "UpdateProviderModel", "UpdateStorageBackend", "UpdateAsset"})
  \cup R("PUT", "platform", {"PutSystemLLMConfig"})
  \cup RId("PUT", "platform", {"UploadAssetChunk"})
  \cup RId("DELETE", "platform",
    {"DeleteProvider", "DeleteProviderModel", "CancelAssetChunkUpload", "DeleteAsset"})

installAuthApis ==
  R("GET", "auth", {"OTPGenerateOrGet", "SpSsoSamlInitiator"})
  \cup R("POST", "auth",
    {"OTPValidate", "SpSsoSamlInitiator", "SpSsoSamlAcs", "SpSsoSamlSLO", "IdpServeSAMLProtocolSSO"})

InstallSettingApis ==
  R("GET", "setting",
    {"IdentityProviderSAMLMetadataGet", "IdentityProviderSAMLMetadataDownload",
     "ServiceProviderSAMLMetadataGet", "ServiceProviderSAMLMetadataDownload",
     "IdentityProviderGet", "IdentityProviderList", "ServiceProviderGet",
     "ServiceProviderRedirectURL", "ServiceProviderList"})
  \cup R("POST", "setting",
    {"IdentityProviderSAMLMetadataUpsert", "ServiceProviderSAMLMetadataUpsert",
     "IdentityProviderAdd", "IdentityProviderDelete", "IdentityProviderUpdate",
     "ServiceProviderAdd", "ServiceProviderDelete", "ServiceProviderUpdate"})

installAssetApis ==
  R("GET", "asset", {"ListLibraries", "ListCategories", "ListItems"})
  \cup R("POST", "asset",
    {"CreateLibrary", "CreateCategory", "CreateItem", "BatchCreateItems", "BatchDeleteItems",
     "BatchMoveItems", "ClassifyItems"})
  \cup RId("PATCH", "asset", {"UpdateLibrary", "UpdateCategory", "UpdateItem"})
  \cup RId("DELETE", "asset", {"DeleteLibrary", "DeleteCategory", "DeleteItem"})

installPromptApis ==
  R("GET", "prompt", {"ListLibraries"})
  \cup R("POST", "prompt", {"CreateLibrary", "CreateItem", "BatchDeleteItems", "CreateCategory"})
  \cup RId("PATCH", "prompt", {"UpdateLibrary", "UpdateItem", "UpdateCategory"})
  \cup RId("DELETE", "prompt", {"DeleteLibrary", "DeleteItem", "DeleteCategory"})

installCanvasApis ==
  R("GET", "canvas", {"ListCanvases", "ListTrash", "ListProjects"})
  \cup RId("GET", "canvas", {"GetCanvas", "ExportCanvas", "GetCanvasMeta"})
  \cup R("POST", "canvas", {"CreateCanvas", "ImportCanvas", "CreateProject"})
  \cup RId("POST", "canvas",
    {"UpdateCanvasMeta", "ExportWorkflow", "ImportWorkflow", "ExportWorkflowPackage",
     "ImportWorkflowPackage", "TouchCanvas", "RestoreCanvas", "UpdateProject"})
  \cup RId("PATCH", "canvas", {"UpdateCanvasMeta"})
  \cup RId("PUT", "canvas", {"SaveCanvas"})
  \cup RId("DELETE", "canvas", {"DeleteCanvas", "PurgeCanvas", "DeleteProject"})

InstallApis ==
  installPlatformApis \cup installAuthApis \cup InstallSettingApis \cup installAssetApis
    \cup installPromptApis \cup installCanvasApis
-----------------------------------------------------------------------------
(* What a type demands of a message.  needs: the fields whose presence the *)
(* validator enforces.  loose: fields tagged required that it does not     *)
(* enforce, being structures or members of list elements.  forms: the      *)
(* fields have names in forms and queries.  own: the type has a field with *)
(* the id of the resource that a message can set.  meta: the type contains *)
(* ObjectMeta, whose tag "name" the validator of the server does not know. *)
(* files: parts only a form can carry.  check and post: what Validate and  *)
(* PostBind do.                                                            *)
T(needs, forms, own) ==
  [needs |-> needs, loose |-> {}, forms |-> forms, own |-> own, meta |-> FALSE,
   files |-> {}, check |-> "none", post |-> "none"]
Json(needs) == T(needs, FALSE, FALSE)
Query(needs) == T(needs, TRUE, FALSE)
Update == T({}, FALSE, TRUE)
Loose(type, fields) == [type EXCEPT !.loose = fields]
ObjectMeta(needs) == [T(needs, TRUE, TRUE) EXCEPT !.meta = TRUE]
KeyPair(type) == [type EXCEPT !.files = {"key_file", "cert_file"}]
Checked(type, how) == [type EXCEPT !.check = how]
Finished(type, how) == [type EXCEPT !.post = how]

ProviderRequests ==
  [ProviderListRequest |-> Query({}),
   ProviderCreateRequest |-> Json({"name", "type"}),
   ProviderUpdateRequest |-> Checked(Update, "passes"),
   ProviderTestRequest |-> Update,
   ProviderModelListRequest |-> T({}, TRUE, TRUE),
   ProviderModelCreateRequest |-> T({"name", "model"}, FALSE, TRUE),
   ProviderModelUpdateRequest |-> Update,
   ProviderModelSyncRequest |-> Update]

LLMRequests == [SystemLLMConfigUpsertRequest |-> Loose(Json({"configs"}), {"purpose", "provider_id"})]

StorageRequests ==
  [StorageBackendListRequest |-> Query({}),
   StorageBackendCreateRequest |-> Json({"name", "type"}),
   StorageBackendUpdateRequest |-> Update]

ChunkFields == {"filename", "size", "checksum", "chunk_size", "total_chunks"}

AssetRequests ==
  [AssetListRequest |-> Finished(Query({}), "splits"),
   AssetSearchRequest |-> Finished(Json({}), "splits"),
   AssetSearchParseRequest |-> Json({"text"}),
   AssetChunkUploadInitRequest |-> Json(ChunkFields),
   AssetChunkUploadCompleteRequest |-> T(ChunkFields \ {"checksum"}, FALSE, TRUE),
   AssetUpdateRequest |-> Update]

GroupRequests == [AssetGroupCreateRequest |-> Json({"name"})]
TaskRequests == [TaskCreateRequest |-> Json({"type"}), TaskListRequest |-> Query({})]

LibraryRequests ==
  [AssetLibraryListRequest |-> Query({}),
   AssetLibraryCreateRequest |-> Json({"name"}),
   AssetLibraryUpdateRequest |-> ObjectMeta({"name"}),
   AssetLibraryDeleteRequest |-> ObjectMeta({})]

CategoryRequests ==
  [AssetCategoryListRequest |-> Query({"library_id"}),
   AssetCategoryCreateRequest |-> Json({"library_id", "name"}),
   AssetCategoryUpdateRequest |-> ObjectMeta({"name"}),
   AssetCategoryDeleteRequest |-> ObjectMeta({})]

ItemRequests ==
  [AssetItemListRequest |-> Query({}),
   AssetItemCreateRequest |-> Json({"library_id", "category_id", "url"}),
   AssetItemBatchCreateRequest |-> Loose(Json({"library_id", "category_id", "items"}), {"url"}),
   AssetItemUpdateRequest |-> ObjectMeta({"name"}),
   AssetItemDeleteRequest |-> ObjectMeta({}),
   AssetItemBatchDeleteRequest |-> Json({"ids"}),
   AssetItemBatchMoveRequest |-> Json({"ids", "target_category_id"}),
   AssetItemClassifyRequest |-> Json({"ids"})]

PromptRequests ==
  [PromptLibraryCreateRequest |-> Json({"name"}),
   PromptLibraryUpdateRequest |-> ObjectMeta({"name"}),
   PromptLibraryDeleteRequest |-> ObjectMeta({}),
   PromptItemCreateRequest |-> Json({"library_id", "positive"}),
   PromptItemUpdateRequest |-> ObjectMeta({"positive"}),
   PromptItemDeleteRequest |-> ObjectMeta({}),
   PromptItemBatchDeleteRequest |-> Json({"ids"}),
   PromptCategoryCreateRequest |-> Json({"library_id", "name"}),
   PromptCategoryUpdateRequest |-> ObjectMeta({"name"}),
   PromptCategoryDeleteRequest |-> ObjectMeta({})]

ProjectRequests ==
  [ProjectCreateRequest |-> Json({"name"}),
   ProjectUpdateRequest |-> Update,
   ProjectDeleteRequest |-> Update]

CanvasRequests ==
  [CanvasCreateRequest |-> Json({}),
   CanvasMetaUpdateRequest |-> Update,
   CanvasSaveRequest |-> Update,
   CanvasImportRequest |-> Loose(Json({}), {"canvas"}),
   CanvasWorkflowExportRequest |-> Json({}),
   CanvasWorkflowImportRequest |-> Loose(Json({}), {"workflow"}),
   CanvasWorkflowPackageExportRequest |-> Json({}),
   CanvasWorkflowPackageImportRequest |-> Loose(Json({}), {"package"})]

CanvasRunRequests ==
  [CanvasAssetDownloadRequest |-> Json({}),
   CanvasAssetRegisterOutputRequest |-> Json({"asset_id"}),
   CanvasNodeRunRequest |-> Json({})]

OtpRequests == [OTPValidateRequest |-> Json({"user_id", "otp"}), OTPGenerateRequest |-> Json({"user_id"})]

AnswerRequests == [IdpServeSSOAnswerRequest |-> Finished(Query({"SAMLRequest", "RelayState"}), "base64")]
InitiatorRequests ==
  [SpSSOInitiatorRequest |->
     Finished(Query({"identity_provider_name", "redirect_url_encode"}), "base64")]

IdpMetadataRequests ==
  [IdentityProviderMetadataUpsetRequest |->
     KeyPair(Checked(Query({"endpoint", "redirect_sso_frontend_url"}), "scheme"))]
SpMetadataRequests ==
  [ServiceProviderMetadataUpsetRequest |-> KeyPair(Checked(Query({"endpoint"}), "scheme"))]

(* The types of the provider pages contain the row, with its ObjectMeta    *)
(* and its Validate, which ends in an error whatever the protocol is.      *)
IdpRow == Checked(ObjectMeta({}), "fails")
IdpRequests ==
  [IdentityProviderListRequest |-> Query({}),
   IdentityProviderAddRequest |-> IdpRow, IdentityProviderGetRequest |-> IdpRow,
   IdentityProviderUpdateRequest |-> IdpRow, IdentityProviderDeleteRequest |-> IdpRow]
SpRow == Checked(ObjectMeta({"protocol", "endpoint", "type"}), "fails")
SpRequests ==
  [ServiceProviderListRequest |-> Query({}),
   ServiceProviderAddRequest |-> SpRow, ServiceProviderGetRequest |-> SpRow,
   ServiceProviderUpdateRequest |-> SpRow, ServiceProviderDeleteRequest |-> SpRow]

NoRequest == [nil |-> Json({})]

RequestTables ==
  {ProviderRequests, LLMRequests, StorageRequests, AssetRequests, GroupRequests, TaskRequests,
   LibraryRequests, CategoryRequests, ItemRequests, PromptRequests, ProjectRequests, CanvasRequests,
   CanvasRunRequests, OtpRequests, AnswerRequests, InitiatorRequests, IdpMetadataRequests,
   SpMetadataRequests, IdpRequests, SpRequests, NoRequest}
-----------------------------------------------------------------------------
(* What a handler does: via, how it gets to the service (run is core.Run,  *)
(* or DecodeParameter and the call); req, the type it decodes into; id,    *)
(* where the id of the resource comes from: the path parameter given to    *)
(* the service, or put in the request before it is bound (preset), the     *)
(* body, or none is needed.                                                *)
H(via, req, id) == [via |-> via, req |-> req, id |-> id]
Plain(id) == H("run", "nil", id)
Direct(id) == H("direct", "nil", id)
Binds(req, id) == H("run", req, id)

ProviderHandlers ==
  [Me |-> Plain("none"),
   ListProviders |-> Binds("ProviderListRequest", "none"),
   CreateProvider |-> Binds("ProviderCreateRequest", "none"),
   ListProviderPresets |-> Plain("none"),
   InstallProviderPreset |-> Plain("path"),
   UpdateProvider |-> Binds("ProviderUpdateRequest", "preset"),
   DeleteProvider |-> Plain("path"),
   TestProvider |-> Binds("ProviderTestRequest", "preset"),
   ListProviderModels |-> Binds("ProviderModelListRequest", "preset"),
   CreateProviderModel |-> Binds("ProviderModelCreateRequest", "preset"),
   UpdateProviderModel |-> Binds("ProviderModelUpdateRequest", "preset"),
   DeleteProviderModel |-> Plain("path"),
   SyncProviderModels |-> Binds("ProviderModelSyncRequest", "preset"),
   GetSystemLLMConfig |-> Plain("none"),
   PutSystemLLMConfig |-> Binds("SystemLLMConfigUpsertRequest", "none"),
   ListStorageBackends |-> Binds("StorageBackendListRequest", "none"),
   CreateStorageBackend |-> Binds("StorageBackendCreateRequest", "none"),
   UpdateStorageBackend |-> Binds("StorageBackendUpdateRequest", "preset")]

AssetHandlers ==
  [UploadAsset |-> H("file", "nil", "none"),
   InitAssetChunkUpload |-> Binds("AssetChunkUploadInitRequest", "body"),
   UploadAssetChunk |-> H("index", "nil", "path"),
   CompleteAssetChunkUpload |-> Binds("AssetChunkUploadCompleteRequest", "preset"),
   CancelAssetChunkUpload |-> Direct("path"),
   ListAssets |-> Binds("AssetListRequest", "none"),
   SearchAssets |-> Binds("AssetSearchRequest", "none"),
   ParseAssetSearch |-> Binds("AssetSearchParseRequest", "none"),
   GetAsset |-> Plain("path"),
   UpdateAsset |-> Binds("AssetUpdateRequest", "preset"),
   DeleteAsset |-> Plain("path"),
   GetAssetContent |-> Direct("path"),
   GetAssetThumbnail |-> Direct("path"),
   CreateAssetGroup |-> Binds("AssetGroupCreateRequest", "none")]

RunHandlers ==
  [ListTasks |-> Binds("TaskListRequest", "none"),
   CreateTask |-> Binds("TaskCreateRequest", "none"),
   GetTask |-> Plain("path"),
   CancelTask |-> Plain("path"),
   TaskEvents |-> Direct("path"),
   RunCanvas |-> Direct("path"),
   DownloadCanvasAssets |-> H("zip", "CanvasAssetDownloadRequest", "body"),
   RegisterCanvasOutput |-> Binds("CanvasAssetRegisterOutputRequest", "body"),
   RunCanvasNode |-> Binds("CanvasNodeRunRequest", "path"),
   GetCanvasRun |-> Plain("path"),
   CancelCanvasRun |-> Plain("path")]

OtpHandlers ==
  [OTPGenerateOrGet |-> Binds("OTPGenerateRequest", "body"),
   OTPValidate |-> Binds("OTPValidateRequest", "body")]

IdpHandlers == [IdpServeSAMLProtocolSSO |-> Binds("IdpServeSSOAnswerRequest", "none")]

SpHandlers ==
  [SpSsoSamlInitiator |-> Binds("SpSSOInitiatorRequest", "body"),
   SpSsoSamlAcs |-> H("relay", "nil", "body"),
   SpSsoSamlSLO |-> Direct("none")]

MetadataHandlers ==
  [IdentityProviderSAMLMetadataUpsert |-> Binds("IdentityProviderMetadataUpsetRequest", "none"),
   IdentityProviderSAMLMetadataGet |-> Direct("none"),
   IdentityProviderSAMLMetadataDownload |-> Direct("none"),
   ServiceProviderSAMLMetadataUpsert |-> Binds("ServiceProviderMetadataUpsetRequest", "none"),
   ServiceProviderSAMLMetadataGet |-> Direct("none"),
   ServiceProviderSAMLMetadataDownload |-> Direct("none")]

IdpPageHandlers ==
  [IdentityProviderList |-> Binds("IdentityProviderListRequest", "none"),
   IdentityProviderGet |-> Binds("IdentityProviderGetRequest", "body"),
   IdentityProviderAdd |-> Binds("IdentityProviderAddRequest", "body"),
   IdentityProviderUpdate |-> Binds("IdentityProviderUpdateRequest", "body"),
   IdentityProviderDelete |-> Binds("IdentityProviderDeleteRequest", "body")]

SpPageHandlers ==
  [ServiceProviderList |-> Binds("ServiceProviderListRequest", "none"),
   ServiceProviderGet |-> Binds("ServiceProviderGetRequest", "body"),
   ServiceProviderAdd |-> Binds("ServiceProviderAddRequest", "body"),
   ServiceProviderUpdate |-> Binds("ServiceProviderUpdateRequest", "body"),
   ServiceProviderDelete |-> Binds("ServiceProviderDeleteRequest", "body"),
   ServiceProviderRedirectURL |-> Binds("ServiceProviderGetRequest", "body")]

AssetLibraryHandlers ==
  [ListLibraries |-> Binds("AssetLibraryListRequest", "none"),
   CreateLibrary |-> Binds("AssetLibraryCreateRequest", "none"),
   UpdateLibrary |-> Binds("AssetLibraryUpdateRequest", "preset"),
   DeleteLibrary |-> Binds("AssetLibraryDeleteRequest", "preset"),
   ListCategories |-> Binds("AssetCategoryListRequest", "body"),
   CreateCategory |-> Binds("AssetCategoryCreateRequest", "body"),
   UpdateCategory |-> Binds("AssetCategoryUpdateRequest", "preset"),
   DeleteCategory |-> Binds("AssetCategoryDeleteRequest", "preset"),
   ListItems |-> Binds("AssetItemListRequest", "none"),
   CreateItem |-> Binds("AssetItemCreateRequest", "body"),
   BatchCreateItems |-> Binds("AssetItemBatchCreateRequest", "body"),
   UpdateItem |-> Binds("AssetItemUpdateRequest", "preset"),
   DeleteItem |-> Binds("AssetItemDeleteRequest", "preset"),
   BatchDeleteItems |-> Binds("AssetItemBatchDeleteRequest", "body"),
   BatchMoveItems |-> Binds("AssetItemBatchMoveRequest", "body"),
   ClassifyItems |-> Binds("AssetItemClassifyRequest", "body")]

PromptLibraryHandlers ==
  [ListLibraries |-> Plain("none"),
   CreateLibrary |-> Binds("PromptLibraryCreateRequest", "none"),
   UpdateLibrary |-> Binds("PromptLibraryUpdateRequest", "preset"),
   DeleteLibrary |-> Binds("PromptLibraryDeleteRequest", "preset"),
   CreateItem |-> Binds("PromptItemCreateRequest", "body"),
   UpdateItem |-> Binds("PromptItemUpdateRequest", "preset"),
   DeleteItem |-> Binds("PromptItemDeleteRequest", "preset"),
   BatchDeleteItems |-> Binds("PromptItemBatchDeleteRequest", "body"),
   CreateCategory |-> Binds("PromptCategoryCreateRequest", "body"),
   UpdateCategory |-> Binds("PromptCategoryUpdateRequest", "preset"),
   DeleteCategory |-> Binds("PromptCategoryDeleteRequest", "preset")]

CanvasHandlers ==
  [ListCanvases |-> Plain("none"),
   ListTrash |-> Plain("none"),
   CreateCanvas |-> Binds("CanvasCreateRequest", "none"),
   GetCanvas |-> Plain("path"),
   GetCanvasMeta |-> Plain("path"),
   UpdateCanvasMeta |-> Binds("CanvasMetaUpdateRequest", "preset"),
   SaveCanvas |-> Binds("CanvasSaveRequest", "preset"),
   ExportCanvas |-> Plain("path"),
   ImportCanvas |-> Binds("CanvasImportRequest", "none"),
   ExportWorkflow |-> Binds("CanvasWorkflowExportRequest", "path"),
   ImportWorkflow |-> Binds("CanvasWorkflowImportRequest", "path"),
   ExportWorkflowPackage |-> Binds("CanvasWorkflowPackageExportRequest", "path"),
   ImportWorkflowPackage |-> Binds("CanvasWorkflowPackageImportRequest", "path"),
   TouchCanvas |-> Plain("path"),
   DeleteCanvas |-> Plain("path"),
   RestoreCanvas |-> Plain("path"),
   PurgeCanvas |-> Plain("path"),
   ListProjects |-> Plain("none"),
   CreateProject |-> Binds("ProjectCreateRequest", "none"),
   UpdateProject |-> Binds("ProjectUpdateRequest", "preset"),
   DeleteProject |-> Binds("ProjectDeleteRequest", "preset")]

HandlerTables ==
  [platform |-> {ProviderHandlers, AssetHandlers, RunHandlers},
   auth |-> {OtpHandlers, IdpHandlers, SpHandlers},
   setting |-> {MetadataHandlers, IdpPageHandlers, SpPageHandlers},
   asset |-> {AssetLibraryHandlers}, prompt |-> {PromptLibraryHandlers}, canvas |-> {CanvasHandlers}]

(* The entry of that name, which is in one of the tables. *)
Entry(tables, name) == (CHOOSE table \in tables : name \in DOMAIN table)[name]

Handler(m) == Entry(HandlerTables[m.route[2]], m.route[3])
Type(m) == Entry(RequestTables, Handler(m).req)
Method(m) == m.route[1]
-----------------------------------------------------------------------------
(* Messages.  lacks: the one demanded field it does not carry.             *)
Unknown == <<"GET", "none", "none", FALSE>>
Message(route, coding, readable, lacks, other, formed) ==
  [route |-> route, coding |-> coding, readable |-> readable, lacks |-> lacks,
   other |-> other, formed |-> formed]
Silent == Message(Unknown, "query", TRUE, "nothing", FALSE, TRUE)
Codings(method) ==
  IF method = "GET" THEN {"query"} ELSE IF method = "DELETE" THEN {"none"} ELSE {"json", "form"}
Demanded(m) == Type(m).needs \cup Type(m).files
Lackable(route) ==
  LET whole == Message(route, "none", TRUE, "nothing", FALSE, TRUE) IN
  {"nothing"} \cup Demanded(whole) \cup Type(whole).loose

(* What gets into the request.  DELETE binds nothing; a form or a query    *)
(* fills the fields that have a name there; files come with forms only.    *)
Binding(m) == Handler(m).req # "nil" /\ Method(m) # "DELETE"
Named(m) == m.coding = "json" \/ Type(m).forms
Given(m) ==
  {f \in Demanded(m) : Named(m) /\ f # m.lacks /\ (f \in Type(m).files => m.coding = "form")}
Legible(m) == m.readable /\ (Handler(m).via = "zip" => m.coding = "json")
BindResult(m) ==
  CASE ~Binding(m) -> "bound"
    [] Binding(m) /\ ~Legible(m) -> "refused"
    [] Binding(m) /\ Legible(m) /\ Type(m).meta -> "panicked"
    [] OTHER -> IF Demanded(m) \subseteq Given(m) THEN "bound" ELSE "refused"

(* Fault seeded for the checks: binding empties the request before it      *)
(* fills it.                                                               *)
TargetOfEmptied(m) ==
  IF Handler(m).id = "path" THEN "path" ELSE IF Binding(m) /\ Named(m) THEN "message" ELSE Handler(m).id

(* Where the id the service is given comes from. *)
TargetOf(m) ==
  CASE Handler(m).id = "preset" ->
         IF Binding(m) /\ Type(m).own /\ Named(m) /\ m.other THEN "message" ELSE "path"
    [] Handler(m).id = "body" -> "message"
    [] OTHER -> Handler(m).id
-----------------------------------------------------------------------------
HttpInit == stage = "idle" /\ msg = Silent /\ target = "none" /\ ran = FALSE /\ wrote = <<>>

Receive ==
  /\ stage = "idle" /\ stage' = "routed"
  /\ \/ msg' = Silent
     \/ \E route \in InstallApis, readable, other, formed \in BOOLEAN :
          \E coding \in Codings(route[1]), lacks \in Lackable(route) :
            msg' = Message(route, coding, readable, lacks, other, formed)
  /\ UNCHANGED <<target, ran, wrote>>

WriteResponse(body) == stage' = "done" /\ wrote' = Append(wrote, body)
Refuse == WriteResponse("error") /\ UNCHANGED <<msg, target, ran>>

NoRoute == stage = "routed" /\ msg.route \notin InstallApis /\ Refuse

AtHandler(vias) == stage = "routed" /\ msg.route \in InstallApis /\ Handler(msg).via \in vias

(* Fault seeded for the checks: no return after the error was written. *)
BindGoesOn ==
  /\ AtHandler({"run", "zip"})
  /\ target' = TargetOf(msg) /\ UNCHANGED <<msg, ran>>
  /\ \/ BindResult(msg) = "refused" /\ stage' = "bound" /\ wrote' = Append(wrote, "error")
     \/ BindResult(msg) = "bound" /\ stage' = "bound" /\ UNCHANGED wrote
     \/ BindResult(msg) = "panicked" /\ stage' = "done" /\ UNCHANGED wrote

(* core.DecodeParameter: bind, Validate, PostBind.  A panic of the         *)
(* validator reaches net/http, which closes the connection: the recovery   *)
(* middleware is not in the list the configuration installs.               *)
Bind ==
  /\ AtHandler({"run", "zip"})
  /\ LET result == BindResult(msg) IN
       \/ result = "bound" /\ target' = TargetOf(msg) /\ UNCHANGED <<msg, ran, wrote>>
          /\ stage' = IF Handler(msg).via = "zip" THEN "ready" ELSE "bound"
       \/ result = "refused" /\ Refuse
       \/ result = "panicked" /\ stage' = "done" /\ UNCHANGED <<msg, target, ran, wrote>>

Validate ==
  /\ stage = "bound"
  /\ LET check == Type(msg).check IN
       IF check = "fails" \/ (check = "scheme" /\ ~msg.formed) THEN Refuse
       ELSE stage' = "valid" /\ UNCHANGED <<msg, target, ran, wrote>>

PostBind ==
  /\ stage = "valid"
  /\ IF Type(msg).post = "base64" /\ ~msg.formed THEN Refuse
     ELSE stage' = "ready" /\ UNCHANGED <<msg, target, ran, wrote>>

(* The handlers that decode by themselves: a form file, a number of the    *)
(* path, or nothing.                                                       *)
UploadAsset ==
  /\ AtHandler({"file"})
  /\ IF msg.readable /\ msg.coding = "form" /\ msg.formed
       THEN stage' = "ready" /\ target' = TargetOf(msg) /\ UNCHANGED <<msg, ran, wrote>>
       ELSE Refuse

UploadAssetChunk ==
  /\ AtHandler({"index"})
  /\ IF msg.formed
       THEN stage' = "ready" /\ target' = TargetOf(msg) /\ UNCHANGED <<msg, ran, wrote>>
       ELSE Refuse

DirectCall ==
  AtHandler({"direct"}) /\ stage' = "ready" /\ target' = TargetOf(msg) /\ UNCHANGED <<msg, ran, wrote>>

(* The assertion consumer reads RelayState from the keys of the context,   *)
(* where nothing puts it: the empty text is not a JSON object.             *)
SpSsoSamlAcs == AtHandler({"relay"}) /\ Refuse

(* The service is called.  The download writes to the client as it goes:   *)
(* unless no asset was asked for, at least the end of an archive.          *)
Serve ==
  /\ stage = "ready" /\ ran' = TRUE /\ stage' \in {"succeeded", "failed"}
  /\ \/ Handler(msg).via = "zip" /\ wrote' = Append(wrote, "archive")
     \/ (Handler(msg).via = "zip" => stage' = "failed") /\ UNCHANGED wrote
  /\ UNCHANGED <<msg, target>>

Answer ==
  \/ stage = "succeeded" /\ Handler(msg).via # "zip" /\ WriteResponse("data") /\ UNCHANGED <<msg, target, ran>>
  \/ stage = "succeeded" /\ Handler(msg).via = "zip" /\ stage' = "done" /\ UNCHANGED <<msg, target, ran, wrote>>
  \/ stage = "failed" /\ Refuse

(* The connection is free for another message. *)
Done ==
  stage = "done" /\ stage' = "idle" /\ msg' = Silent /\ target' = "none" /\ ran' = FALSE /\ wrote' = <<>>

HttpNext ==
  Receive \/ NoRoute \/ Bind \/ Validate \/ PostBind \/ UploadAsset \/ UploadAssetChunk \/ DirectCall
    \/ SpSsoSamlAcs \/ Serve \/ Answer \/ Done
HttpSpec == HttpInit /\ [][HttpNext]_httpVars
-----------------------------------------------------------------------------
(* A service that is given the id of a resource is given the one the path  *)
(* names; only an id the message itself carries, in a type that has room   *)
(* for it, replaces it, and never on DELETE.                               *)
AddressedResource ==
  ran /\ msg.route[4] =>
    target = "path" \/ (target = "message" /\ msg.other /\ Method(msg) # "DELETE")

(* No service is called with a message that could not be read, lacks a     *)
(* field the validator enforces, or has a value that does not parse.       *)
CheckedBeforeRun ==
  ran /\ Binding(msg) =>
    /\ msg.readable /\ msg.lacks \notin Demanded(msg)
    /\ Type(msg).check = "scheme" \/ Type(msg).post = "base64" => msg.formed

(* A complete message, in an encoding its type has names for, reaches the  *)
(* service, but for the requests that contain ObjectMeta, whose tags make  *)
(* the validator panic, and the assertion consumer.                        *)
Complete(m) ==
  /\ m.readable /\ m.lacks = "nothing" /\ m.formed
  /\ Binding(m) => Named(m) /\ (Type(m).files # {} \/ Handler(m).via = "zip" =>
                                    m.coding = IF Handler(m).via = "zip" THEN "json" ELSE "form")
  /\ Handler(m).via = "file" => m.coding = "form"
CompleteMessageServed ==
  stage = "done" /\ msg.route \in InstallApis /\ Complete(msg) =>
    ran \/ (Binding(msg) /\ Type(msg).meta) \/ Handler(msg).via = "relay"

(* The binders and hooks between a handler and its service pass on what    *)
(* was sent: the resource that is meant, all that the type requires, and   *)
(* not a message refused that has it.                                      *)
ServedAsSent == AddressedResource /\ CheckedBeforeRun /\ CompleteMessageServed

(* Every message is answered once: none without an answer but those that   *)
(* made the validator panic, and none twice but a download that failed     *)
(* after its archive had been begun.                                       *)
AnsweredOnce ==
  stage = "done" =>
    /\ wrote = <<>> => Binding(msg) /\ Type(msg).meta
    /\ Len(wrote) > 1 => Handler(msg).via = "zip" /\ wrote = <<"archive", "error">>
=============================================================================
