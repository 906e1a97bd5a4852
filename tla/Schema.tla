------------------------------- MODULE Schema -------------------------------
(***************************************************************************)
(* The database's schema, twice: as the classes of data/schema.py declare  *)
(* it, and as the statements of the revisions under data/migrations make   *)
(* it on SQLite, where values of an enumeration are not part of a type.    *)
(* A column is kept with whether it may be null, is unique or is indexed;  *)
(* column types, primary and foreign keys are left out.                    *)
(***************************************************************************)
EXTENDS Sequences

\* The columns of a table, and what is declared of each.
Columns(required, nullable, unique, indexed) ==
  [required |-> required, nullable |-> nullable, unique |-> unique, indexed |-> indexed]

TargetMachineTable ==
  Columns({"id", "hostname", "platform", "last_scan_status", "last_scan_sources_ok", "sync_status"},
          {"last_scanned_at", "last_scan_server_key"}, {}, {})
InventoryTable ==
  Columns({"id", "machine_id", "os_name", "os_version", "collected_at", "sync_status"}, {"kernel_version",
          "reboot_required", "kernel_unfixed"}, {}, {})
PackageTable ==
  Columns({"id", "inventory_id", "name", "version"}, {"ecosystem", "dependencies", "source_name",
          "source_version"}, {}, {})
DependencyPathTable ==
  Columns({"id", "machine_id", "sync_status"}, {"package_identifier", "path_expression", "parent_path_id"},
          {}, {})
CveFindingTable ==
  Columns({"id", "machine_id", "cve_id", "severity", "source", "first_seen_at", "sync_status"}, {"cvss_score",
          "package_identifier", "dependency_path_id", "kev_listed", "kev_due_date", "epss_score",
          "epss_percentile"}, {}, {"cve_id"})
ScanRunTable ==
  Columns({"id", "machine_id", "scanned_at", "status", "sources_ok", "finding_count", "baseline",
          "sync_status"}, {"new_count", "resolved_count", "error_detail"}, {}, {"machine_id"})
ScanFindingChangeTable ==
  Columns({"id", "scan_run_id", "change", "cve_id", "severity", "sync_status"}, {"package_identifier",
          "cvss_score", "kev_listed"}, {}, {"scan_run_id"})
ScanJobTable ==
  Columns({"id", "status", "requested_by", "created_at"}, {"started_at", "finished_at", "error_detail"}, {},
          {"status", "created_at"})
ScanJobTargetTable ==
  Columns({"job_id", "position", "machine_id", "hostname", "platform", "state", "server_key"}, {"status",
          "finding_count", "sources_ok", "unavailable_sources", "message", "new_count", "resolved_count",
          "baseline"}, {}, {})
ScanScheduleTable ==
  Columns({"id", "enabled", "time_of_day"}, {"armed_at", "last_run_at", "last_job_id", "last_note"}, {}, {})
UbuntuKernelFeedTable ==
  Columns({"codename", "flavour", "entries", "payload"}, {}, {}, {})
KernelFeedTable ==
  Columns({"feed", "stream", "entries", "payload"}, {}, {}, {})
KevEntryTable ==
  Columns({"cve_id", "known_ransomware_use"}, {"vendor_project", "product", "vulnerability_name",
          "date_added", "due_date", "notes"}, {}, {})
EpssScoreTable ==
  Columns({"cve_id", "score", "percentile", "scored_at"}, {}, {}, {})
FeedRefreshTable ==
  Columns({"feed_name", "last_status", "record_count"}, {"last_refreshed_at", "last_attempted_at",
          "error_detail", "payload_digest"}, {}, {})
SshHostKeyTable ==
  Columns({"id", "hostname", "port", "key_type", "key_base64", "fingerprint_sha256", "first_seen_at",
          "last_seen_at"}, {}, {"hostname", "port"}, {})
UserTable ==
  Columns({"id", "username", "password_hash", "created_at", "password_changed_at"}, {}, {"username"}, {})
AuthSessionTable ==
  Columns({"token_hash", "user_id", "created_at", "last_seen_at", "expires_at"}, {}, {}, {"user_id"})
ApiTokenTable ==
  Columns({"id", "name", "token_hash", "prefix", "created_at"}, {"last_used_at", "revoked_at"},
          {"token_hash"}, {})
AuthSetupTable ==
  Columns({"id", "code_hash", "expires_at"}, {}, {}, {})
RemediationRecordTable ==
  Columns({"id", "machine_id", "cve_id", "status", "note", "updated_at", "sync_status"}, {}, {}, {})

MetadataTables ==
  [target_machines |-> TargetMachineTable,
   inventories |-> InventoryTable,
   packages |-> PackageTable,
   dependency_paths |-> DependencyPathTable,
   cve_findings |-> CveFindingTable,
   scan_runs |-> ScanRunTable,
   scan_finding_changes |-> ScanFindingChangeTable,
   scan_jobs |-> ScanJobTable,
   scan_job_targets |-> ScanJobTargetTable,
   scan_schedule |-> ScanScheduleTable,
   ubuntu_kernel_feeds |-> UbuntuKernelFeedTable,
   kernel_feeds |-> KernelFeedTable,
   kev_entries |-> KevEntryTable,
   epss_scores |-> EpssScoreTable,
   feed_refreshes |-> FeedRefreshTable,
   ssh_host_keys |-> SshHostKeyTable,
   users |-> UserTable,
   auth_sessions |-> AuthSessionTable,
   api_tokens |-> ApiTokenTable,
   auth_setup |-> AuthSetupTable,
   remediation_records |-> RemediationRecordTable]

-----------------------------------------------------------------------------
(* The statements of a revision.                                           *)

NoColumns == Columns({}, {}, {}, {})
Statement(do, table, columns) == <<[do |-> do, table |-> table, columns |-> columns, to |-> 0]>>

CreateTable(table, required, nullable, unique) ==
  Statement("create", table, Columns(required, nullable, unique, {}))
AddColumn(table, column) == Statement("add", table, Columns({}, {column}, {}, {}))
CreateIndex(table, column) == Statement("index", table, Columns({}, {}, {}, {column}))
Write(table) == Statement("write", table, NoColumns)

\* A batch that changes a column, or adds one with a default, writes the rows
\* to a new table that takes the old one's place.
Rebuild(table, required, nullable) ==
  Statement("copy", table, NoColumns) \o Statement("replace", table, Columns(required, nullable, {}, {}))

Baseline ==
  CreateTable("target_machines", {"id", "hostname", "platform", "last_scan_status", "sync_status"},
      {"last_scanned_at"}, {}) \o
  CreateTable("dependency_paths", {"id", "machine_id", "sync_status"}, {"package_identifier",
      "path_expression", "parent_path_id"}, {}) \o
  CreateTable("inventories", {"id", "machine_id", "os_name", "os_version", "collected_at", "sync_status"}, {},
      {}) \o
  CreateTable("remediation_records", {"id", "machine_id", "cve_id", "status", "note", "updated_at",
      "sync_status"}, {}, {}) \o
  CreateTable("cve_findings", {"id", "machine_id", "cve_id", "cvss_score", "severity", "source",
      "sync_status"}, {"package_identifier", "dependency_path_id"}, {}) \o
  CreateTable("packages", {"id", "inventory_id", "name", "version"}, {"ecosystem", "dependencies"}, {})

ScanTrustSignals ==
  Rebuild("target_machines", {"last_scan_sources_ok"}, {}) \o
  Write("target_machines")

HostRuntimeContext ==
  AddColumn("inventories", "kernel_version") \o
  AddColumn("inventories", "reboot_required")

ThreatIntelEnrichment ==
  CreateTable("kev_entries", {"cve_id", "known_ransomware_use"}, {"vendor_project", "product",
      "vulnerability_name", "date_added", "due_date", "notes"}, {}) \o
  CreateTable("epss_scores", {"cve_id", "score", "percentile", "scored_at"}, {}, {}) \o
  CreateTable("feed_refreshes", {"feed_name", "last_status", "record_count"}, {"last_refreshed_at",
      "last_attempted_at", "error_detail"}, {}) \o
  CreateIndex("cve_findings", "cve_id") \o
  AddColumn("cve_findings", "kev_listed") \o
  AddColumn("cve_findings", "kev_due_date") \o
  AddColumn("cve_findings", "epss_score") \o
  AddColumn("cve_findings", "epss_percentile")

AccessControl ==
  CreateTable("users", {"id", "username", "password_hash", "created_at", "password_changed_at"}, {},
      {"username"}) \o
  CreateTable("auth_sessions", {"token_hash", "user_id", "created_at", "last_seen_at", "expires_at"}, {}, {}) \o
  CreateIndex("auth_sessions", "user_id") \o
  CreateTable("api_tokens", {"id", "name", "token_hash", "prefix", "created_at"}, {"last_used_at",
      "revoked_at"}, {"token_hash"}) \o
  CreateTable("auth_setup", {"id", "code_hash", "expires_at"}, {}, {})

SshHostKeys ==
  CreateTable("ssh_host_keys", {"id", "hostname", "port", "key_type", "key_base64", "fingerprint_sha256",
      "first_seen_at", "last_seen_at"}, {}, {"hostname", "port"})

ScanHistory ==
  AddColumn("cve_findings", "first_seen_at") \o
  Write("cve_findings") \o
  Rebuild("cve_findings", {"first_seen_at"}, {}) \o
  CreateTable("scan_runs", {"id", "machine_id", "scanned_at", "status", "sources_ok", "finding_count",
      "baseline", "sync_status"}, {"new_count", "resolved_count"}, {}) \o
  CreateIndex("scan_runs", "machine_id") \o
  CreateTable("scan_finding_changes", {"id", "scan_run_id", "change", "cve_id", "severity", "cvss_score",
      "sync_status"}, {"package_identifier", "kev_listed"}, {}) \o
  CreateIndex("scan_finding_changes", "scan_run_id")

InventoryUnavailableStatus == <<>>

ScanRunErrorDetail ==
  AddColumn("scan_runs", "error_detail")

UnscoredSeverity ==
  Rebuild("cve_findings", {}, {"cvss_score"}) \o
  Rebuild("scan_finding_changes", {}, {"cvss_score"})

FixInventoryUnavailableLabel == <<>>

FeedPayloadDigest ==
  AddColumn("feed_refreshes", "payload_digest")

PackageSource ==
  AddColumn("packages", "source_name") \o
  AddColumn("packages", "source_version")

KernelUnfixed ==
  AddColumn("inventories", "kernel_unfixed")

UbuntuKernelFeeds ==
  CreateTable("ubuntu_kernel_feeds", {"codename", "flavour", "entries", "payload"}, {}, {})

ScanJobs ==
  CreateTable("scan_jobs", {"id", "status", "requested_by", "created_at"}, {"started_at", "finished_at",
      "error_detail"}, {}) \o
  CreateIndex("scan_jobs", "status") \o
  CreateIndex("scan_jobs", "created_at") \o
  CreateTable("scan_job_targets", {"job_id", "position", "machine_id", "hostname", "platform", "state"},
      {"status", "finding_count", "sources_ok", "unavailable_sources", "message", "new_count",
      "resolved_count", "baseline"}, {})

ScanSchedule ==
  CreateTable("scan_schedule", {"id", "enabled", "time_of_day"}, {"armed_at", "last_run_at", "last_job_id",
      "last_note"}, {}) \o
  AddColumn("target_machines", "last_scan_server_key") \o
  Rebuild("scan_job_targets", {"server_key"}, {})

CancelScanJobs == <<>>

KernelFeeds ==
  CreateTable("kernel_feeds", {"feed", "stream", "entries", "payload"}, {}, {})

RevisionList == <<
  Baseline, ScanTrustSignals, HostRuntimeContext, ThreatIntelEnrichment, AccessControl,
  SshHostKeys, ScanHistory, InventoryUnavailableStatus, ScanRunErrorDetail, UnscoredSeverity,
  FixInventoryUnavailableLabel, FeedPayloadDigest, PackageSource, KernelUnfixed, UbuntuKernelFeeds,
  ScanJobs, ScanSchedule, CancelScanJobs, KernelFeeds >>
=============================================================================
