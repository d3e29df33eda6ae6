---------------------------- MODULE OptionTables ----------------------------
(***************************************************************************)
(* The options of the core and of every plugin, by the fields of           *)
(* plugin_config: what an option may be and which fields are made of it    *)
(* (set_defaults); which fields of p->conf are filled by the global        *)
(* context, and which by a block that has the option (patch_connection).   *)
(***************************************************************************)
EXTENDS TLC

Of(form, options) == [o \in options |-> form]
Making(options, makes) == [form |-> options, makes |-> makes, start |-> {}]
Plain(options) == Making(options, <<>>)
AtStart(table, fields) == [table EXCEPT !.start = fields]
Patching(base, on, plain) ==
  [base |-> base, on |-> [o \in DOMAIN on \cup plain |-> IF o \in plain THEN {o} ELSE on[o]]]
Own(fields) == Patching(fields, <<>>, fields)

-----------------------------------------------------------------------------
(* One plugin after the other.  "array" is any array, and of "logged"      *)
(* options a wrong value is only logged; "global" options are not for      *)
(* blocks; all other forms are checked, and what is "made" of them, too.   *)

CoreDefaults ==
  AtStart(Making(Of("string", {"errorfile_prefix", "server_tag", "document_root", "server_name",
    "error_handler", "error_handler_404", "socket_perms"}) @@ Of("boolean", {"use_ipv6",
    "force_lowercase_filenames", "log_condition_handling", "follow_symlink", "use_xattr",
    "ssl_enabled", "log_file_not_found", "log_request_handling", "log_response_header",
    "log_request_header", "allow_http11", "range_requests", "etag_use_inode", "etag_use_mtime",
    "etag_use_size", "log_timeouts", "set_v6only", "error_intercept"}) @@ Of("int",
    {"max_request_size", "listen_backlog"}) @@ Of("short", {"max_keep_alive_requests",
    "max_keep_alive_idle", "max_read_idle", "max_write_idle", "global_kbytes_per_second",
    "kbytes_per_second", "defer_accept", "stream_request_body", "stream_response_body"}) @@
    Of("logged", {"mimetypes"}), [global_kbytes_per_second |-> {"global_kbytes_per_second"},
    global_bytes_per_second_cnt_ptr |-> {"global_kbytes_per_second"}]), {"use_ipv6", "set_v6only",
    "defer_accept", "listen_backlog", "ssl_enabled"})
\* config_setup_connection
CoreSetup ==
  {"errorfile_prefix", "server_tag", "document_root", "server_name", "error_handler",
    "error_handler_404", "socket_perms", "force_lowercase_filenames", "log_condition_handling",
    "follow_symlink", "use_xattr", "log_file_not_found", "log_request_handling",
    "log_response_header", "log_request_header", "allow_http11", "range_requests",
    "etag_use_inode", "etag_use_mtime", "etag_use_size", "log_timeouts", "error_intercept",
    "max_request_size", "max_keep_alive_requests", "max_keep_alive_idle", "max_read_idle",
    "max_write_idle", "global_kbytes_per_second", "kbytes_per_second", "stream_request_body",
    "stream_response_body", "mimetypes", "global_bytes_per_second_cnt_ptr"}
CorePatch ==
  Patching(CoreSetup, [global_kbytes_per_second |-> {"global_kbytes_per_second",
    "global_bytes_per_second_cnt_ptr"}], {"errorfile_prefix", "server_tag", "document_root",
    "server_name", "error_handler", "error_handler_404", "socket_perms",
    "force_lowercase_filenames", "log_condition_handling", "follow_symlink", "use_xattr",
    "log_file_not_found", "log_request_handling", "log_response_header", "log_request_header",
    "allow_http11", "range_requests", "etag_use_inode", "etag_use_mtime", "etag_use_size",
    "log_timeouts", "error_intercept", "max_request_size", "max_keep_alive_requests",
    "max_keep_alive_idle", "max_read_idle", "max_write_idle", "kbytes_per_second",
    "stream_request_body", "stream_response_body", "mimetypes"})
\* What is for the SSL_CTX of a context is read when the server starts.
OpensslDefaults ==
  AtStart(Making(Of("boolean", {"ssl_log_noise", "ssl_enabled", "ssl_honor_cipher_order",
    "ssl_empty_fragments", "ssl_disable_client_renegotiation", "ssl_read_ahead",
    "ssl_verifyclient", "ssl_verifyclient_enforce", "ssl_verifyclient_export_cert",
    "ssl_use_sslv2", "ssl_use_sslv3"}) @@ Of("string", {"ssl_pemfile", "ssl_ca_file",
    "ssl_dh_file", "ssl_ec_curve", "ssl_cipher_list", "ssl_verifyclient_username",
    "ssl_ca_crl_file", "ssl_ca_dn_file"}) @@ Of("short", {"ssl_verifyclient_depth"}) @@
    Of("logged", {"ssl_conf_cmd"}), [ssl_pemfile_x509 |-> {"ssl_pemfile"}, ssl_pemfile_pkey |->
    {"ssl_pemfile"}, ssl_ca_file |-> {"ssl_ca_file"}, ssl_ca_dn_file |-> {"ssl_ca_dn_file"},
    ssl_ca_file_cert_names |-> {"ssl_ca_file", "ssl_ca_dn_file"}]), {"ssl_enabled",
    "ssl_ca_crl_file", "ssl_cipher_list", "ssl_dh_file", "ssl_ec_curve", "ssl_honor_cipher_order",
    "ssl_empty_fragments", "ssl_use_sslv2", "ssl_use_sslv3", "ssl_conf_cmd"})
OpensslPatch ==
  Patching({"ssl_pemfile_x509", "ssl_pemfile_pkey", "ssl_ca_file", "ssl_ca_dn_file",
    "ssl_ca_file_cert_names", "ssl_verifyclient", "ssl_verifyclient_enforce",
    "ssl_verifyclient_depth", "ssl_verifyclient_username", "ssl_verifyclient_export_cert",
    "ssl_disable_client_renegotiation", "ssl_read_ahead", "ssl_log_noise"}, [ssl_pemfile |->
    {"ssl_pemfile_x509", "ssl_pemfile_pkey"}, ssl_ca_file |-> {"ssl_ca_file",
    "ssl_ca_file_cert_names"}, ssl_ca_dn_file |-> {"ssl_ca_dn_file", "ssl_ca_file_cert_names"}],
    {"ssl_verifyclient", "ssl_verifyclient_enforce", "ssl_verifyclient_depth",
    "ssl_verifyclient_username", "ssl_verifyclient_export_cert",
    "ssl_disable_client_renegotiation", "ssl_read_ahead", "ssl_log_noise"})
AccessDefaults == Plain(Of("vlist", {"access_deny", "access_allow"}))
AccessPatch == Own({"access_allow", "access_deny"})
AccesslogDefaults ==
  Making(Of("string", {"access_logfile", "format"}) @@ Of("boolean", {"use_syslog"}) @@
    Of("short", {"syslog_level"}), [access_logfile |-> {"access_logfile"}, log_access_fd |->
    {"access_logfile"}, parsed_format |-> {"format"}, ts_accesslog_str |-> {"format"}])
AccesslogPatch ==
  Patching({"access_logfile", "log_access_fd", "ts_accesslog_str", "parsed_format", "use_syslog",
    "syslog_level"}, [access_logfile |-> {"access_logfile", "log_access_fd"}, format |->
    {"parsed_format", "ts_accesslog_str"}], {"use_syslog", "syslog_level"})
AliasDefaults == Plain(Of("kvstring", {"alias"}))
AliasPatch == Own({"alias"})
AuthDefaults ==
  Making(Of("choice", {"auth_backend_conf"}) @@ Of("kvarray", {"require"}) @@ Of("boolean",
    {"auth_extern_authn"}), [auth_backend |-> {"auth_backend_conf"}, auth_require |->
    {"require"}])
\* whether auth is done by others stays as the last connection had it
AuthPatchKeepsExtern ==
  Patching({"auth_backend", "auth_require"}, [auth_backend_conf |-> {"auth_backend"}, require |->
    {"auth_require"}], {"auth_extern_authn"})
AuthPatch ==
  Patching({"auth_backend", "auth_require", "auth_extern_authn"}, [auth_backend_conf |->
    {"auth_backend"}, require |-> {"auth_require"}], {"auth_extern_authn"})
AuthnFileDefaults ==
  Plain(Of("string", {"auth_plain_groupfile", "auth_plain_userfile", "auth_htdigest_userfile",
    "auth_htpasswd_userfile"}))
AuthnFilePatch ==
  Own({"auth_plain_groupfile", "auth_plain_userfile", "auth_htdigest_userfile",
    "auth_htpasswd_userfile"})
AuthnGssapiDefaults == Plain(Of("string", {"auth_gssapi_keytab", "auth_gssapi_principal"}))
AuthnGssapiPatch == Own({"auth_gssapi_keytab", "auth_gssapi_principal"})
AuthnLdapDefaults ==
  Plain(Of("string", {"auth_ldap_hostname", "auth_ldap_basedn", "auth_ldap_filter",
    "auth_ldap_cafile", "auth_ldap_binddn", "auth_ldap_bindpw", "auth_ldap_groupmember"}) @@
    Of("boolean", {"auth_ldap_starttls", "auth_ldap_allow_empty_pw"}))
AuthnLdapPatch ==
  Own({"auth_ldap_hostname", "auth_ldap_basedn", "auth_ldap_binddn", "auth_ldap_bindpw",
    "auth_ldap_filter", "auth_ldap_cafile", "auth_ldap_starttls", "auth_ldap_allow_empty_pw",
    "auth_ldap_groupmember"})
AuthnMysqlDefaults ==
  Plain(Of("string", {"auth_mysql_host", "auth_mysql_user", "auth_mysql_pass", "auth_mysql_db",
    "auth_mysql_socket", "auth_mysql_users_table", "auth_mysql_col_user", "auth_mysql_col_pass",
    "auth_mysql_col_realm"}) @@ Of("int", {"auth_mysql_port"}))
AuthnMysqlPatch ==
  Own({"auth_mysql_host", "auth_mysql_user", "auth_mysql_pass", "auth_mysql_db",
    "auth_mysql_port", "auth_mysql_socket", "auth_mysql_users_table", "auth_mysql_col_user",
    "auth_mysql_col_pass", "auth_mysql_col_realm"})
AuthnSaslDefaults ==
  Making(Of("array", {"opts"}), [service |-> {"opts"}, fqdn |-> {"opts"}, pwcheck_method |->
    {"opts"}, sasldb_path |-> {"opts"}])
AuthnSaslPatch ==
  Patching({"service", "fqdn", "pwcheck_method", "sasldb_path"}, [opts |-> {"service", "fqdn",
    "pwcheck_method", "sasldb_path"}], {})
CgiDefaults ==
  Plain(Of("kvstring", {"cgi"}) @@ Of("boolean", {"execute_x_only", "xsendfile_allow",
    "local_redir", "upgrade"}) @@ Of("array", {"xsendfile_docroot"}))
CgiPatch ==
  Own({"cgi", "execute_x_only", "local_redir", "upgrade", "xsendfile_allow", "xsendfile_docroot"})
CmlDefaults ==
  Making(Of("string", {"ext", "mc_namespace", "power_magnet"}) @@ Of("vlist", {"mc_hosts"}), [memc
    |-> {"mc_hosts"}])
CmlPatch ==
  Patching({"ext", "memc", "mc_namespace", "power_magnet"}, [mc_hosts |-> {"memc"}], {"ext",
    "mc_namespace", "power_magnet"})
CompressDefaults ==
  Plain(Of("string", {"compress_cache_dir", "max_loadavg"}) @@ Of("vlist", {"compress",
    "allowed_encodings"}) @@ Of("short", {"compress_max_filesize"}))
CompressPatch ==
  Own({"compress_cache_dir", "compress", "compress_max_filesize", "allowed_encodings",
    "max_loadavg"})
DeflateDefaults ==
  Plain(Of("vlist", {"mimetypes", "allowed_encodings"}) @@ Of("int", {"max_compress_size"}) @@
    Of("short", {"min_compress_size", "compression_level", "output_buffer_size",
    "work_block_size"}) @@ Of("string", {"max_loadavg"}))
DeflatePatch ==
  Own({"mimetypes", "allowed_encodings", "max_compress_size", "min_compress_size",
    "compression_level", "output_buffer_size", "work_block_size", "max_loadavg"})
DirlistingDefaults ==
  Making(Of("vlist", {"exclude"}) @@ Of("boolean", {"dir_listing", "hide_dot_files",
    "hide_readme_file", "hide_header_file", "listing", "encode_readme", "encode_header",
    "auto_layout"}) @@ Of("string", {"external_css", "encoding", "show_readme", "show_header",
    "set_footer", "external_js"}), [excludes |-> {"exclude"}, dir_listing |-> {"listing",
    "dir_listing"}])
DirlistingPatch ==
  Patching({"dir_listing", "external_css", "external_js", "hide_dot_files", "encoding",
    "show_readme", "hide_readme_file", "show_header", "hide_header_file", "excludes",
    "set_footer", "encode_readme", "encode_header", "auto_layout"}, [exclude |-> {"excludes"},
    listing |-> {"dir_listing"}], {"dir_listing", "hide_dot_files", "external_css", "external_js",
    "encoding", "show_readme", "hide_readme_file", "show_header", "hide_header_file",
    "set_footer", "encode_readme", "encode_header", "auto_layout"})
EvasiveDefaults ==
  Plain(Of("short", {"max_conns"}) @@ Of("boolean", {"silent"}) @@ Of("string", {"location"}))
EvasivePatch == Own({"max_conns", "silent", "location"})
EvhostDefaults == Making(Of("string", {"path_pieces_raw"}), [path_pieces |-> {"path_pieces_raw"}])
EvhostPatch == Patching({"path_pieces"}, [path_pieces_raw |-> {"path_pieces"}], {})
ExpireDefaults == Plain(Of("kvstring", {"expire_url", "expire_mimetypes"}))
ExpirePatch == Own({"expire_url", "expire_mimetypes"})
ExtforwardDefaults ==
  Making(Of("kvstring", {"forwarder"}) @@ Of("vlist", {"headers"}) @@ Of("kvany", {"opts_params"})
    @@ Of("boolean", {"hap_PROXY", "hap_PROXY_ssl_client_verify"}), [forwarder |-> {"forwarder"},
    forward_masks |-> {"forwarder"}, forward_all |-> {"forwarder"}, opts |-> {"opts_params"}])
ExtforwardPatch ==
  Patching({"forwarder", "forward_masks", "headers", "opts", "hap_PROXY",
    "hap_PROXY_ssl_client_verify", "forward_all"}, [forwarder |-> {"forwarder", "forward_masks",
    "forward_all"}, opts_params |-> {"opts"}], {"headers", "hap_PROXY",
    "hap_PROXY_ssl_client_verify"})
FastcgiDefaults ==
  Making(Of("kvarray", {"server"}) @@ Of("short", {"debug"}) @@ Of("array", {"ext_mapping"}) @@
    Of("choice", {"balance"}), [exts |-> {"server"}])
FastcgiPatch ==
  Patching({"exts", "debug", "ext_mapping"}, [server |-> {"exts"}], {"debug", "ext_mapping"})
FlvStreamingDefaults == Plain(Of("vlist", {"extensions"}))
FlvStreamingPatch == Own({"extensions"})
GeoipDefaults ==
  Making(Of("string", {"db_name"}) @@ Of("boolean", {"mem_cache"}), [db_name |-> {"db_name"}, gi
    |-> {"db_name"}])
GeoipPatch == Patching({"db_name", "mem_cache", "gi"}, <<>>, {"db_name", "mem_cache"})
IndexfileDefaults ==
  Making(Of("vlist", {"indexfiles", "server_indexfiles"}), [indexfiles |-> {"server_indexfiles",
    "indexfiles"}])
IndexfilePatch == Patching({"indexfiles"}, [server_indexfiles |-> {"indexfiles"}], {"indexfiles"})
MagnetDefaults == Plain(Of("vlist", {"url_raw", "physical_path"}))
MagnetPatch == Own({"url_raw", "physical_path"})
\* login: a user and a database, without which there is no connection
MysqlVhostDefaults ==
  Making(Of("string", {"login", "mysql_query"}), [mysql_query |-> {"mysql_query"}, mysql |->
    {"login"}])
MysqlVhostPatch == Patching({"mysql_query", "mysql"}, [login |-> {"mysql"}], {"mysql_query"})
ProxyDefaults ==
  Making(Of("kvarray", {"server"}) @@ Of("short", {"debug"}) @@ Of("choice", {"balance"}) @@
    Of("boolean", {"replace_http_host"}) @@ Of("kvany", {"forwarded_params", "header_params"}) @@
    Of("array", {"ext_mapping"}), [exts |-> {"server"}, forwarded |-> {"forwarded_params"}, header
    |-> {"header_params"}])
\* a block's hosts, and not how they are chosen from
ProxyPatchNoBalance ==
  Patching({"exts", "debug", "ext_mapping", "balance", "replace_http_host", "forwarded", "header"},
    [server |-> {"exts"}, forwarded_params |-> {"forwarded"}, header_params |-> {"header"}],
    {"debug", "ext_mapping", "replace_http_host"})
ProxyPatch ==
  Patching({"exts", "debug", "ext_mapping", "balance", "replace_http_host", "forwarded",
    "header"}, [server |-> {"exts"}, forwarded_params |-> {"forwarded"}, header_params |->
    {"header"}], {"debug", "balance", "ext_mapping", "replace_http_host"})
RedirectDefaults ==
  Making(Of("kvstring", {"redirect"}) @@ Of("short", {"redirect_code"}), [redirect |->
    {"redirect"}, context |-> {"redirect"}])
RedirectPatch ==
  Patching({"redirect", "redirect_code", "context"}, [redirect |-> {"redirect", "context"}],
    {"redirect_code"})
RewriteDefaults ==
  Making(Of("logged", {"rewrite_repeat", "rewrite_once", "rewrite_repeat_if_not_file",
    "rewrite_if_not_file", "rewrite", "rewrite_final"}), [rewrite |-> {"rewrite", "rewrite_once",
    "rewrite_repeat", "rewrite_final"}, context |-> {"rewrite", "rewrite_once", "rewrite_repeat",
    "rewrite_final"}, rewrite_NF |-> {"rewrite_if_not_file", "rewrite_repeat_if_not_file"},
    context_NF |-> {"rewrite_if_not_file", "rewrite_repeat_if_not_file"}])
RewritePatch ==
  Patching({"rewrite", "rewrite_NF", "context", "context_NF"}, [rewrite |-> {"rewrite",
    "context"}, rewrite_once |-> {"rewrite", "context"}, rewrite_repeat |-> {"rewrite",
    "context"}, rewrite_if_not_file |-> {"rewrite_NF", "context_NF"}, rewrite_repeat_if_not_file
    |-> {"rewrite_NF", "context_NF"}, rewrite_final |-> {"rewrite", "context"}], {})
RrdtoolDefaults ==
  Making(Of("global", {"path_rrdtool_bin"}) @@ Of("string", {"path_rrd"}), [path_rrdtool_bin |->
    {"path_rrdtool_bin"}, path_rrd |-> {"path_rrd"}, counters |-> {"path_rrd"}])
RrdtoolPatch ==
  Patching({"path_rrdtool_bin", "path_rrd", "counters"}, [path_rrd |-> {"path_rrd", "counters"}],
    {})
ScgiDefaults ==
  Making(Of("kvarray", {"server"}) @@ Of("short", {"debug"}) @@ Of("choice", {"protocol",
    "balance"}) @@ Of("array", {"ext_mapping"}), [exts |-> {"server"}, proto |-> {"protocol"}])
ScgiPatch ==
  Patching({"exts", "proto", "debug", "ext_mapping"}, [server |-> {"exts"}, protocol |->
    {"proto"}], {"debug", "ext_mapping"})
SecdownloadDefaults ==
  Plain(Of("string", {"secret", "doc_root", "uri_prefix"}) @@ Of("int", {"timeout"}) @@
    Of("choice", {"algorithm"}) @@ Of("short", {"path_segments"}) @@ Of("boolean",
    {"hash_querystr"}))
SecdownloadPatch ==
  Own({"secret", "doc_root", "uri_prefix", "timeout", "algorithm", "path_segments",
    "hash_querystr"})
SetenvDefaults ==
  Plain(Of("kvstring", {"request_header", "response_header", "environment", "set_request_header",
    "set_response_header", "set_environment"}))
SetenvPatch ==
  Own({"request_header", "set_request_header", "response_header", "set_response_header",
    "environment", "set_environment"})
SimpleVhostDefaults ==
  Making(Of("string", {"server_root", "default_host", "document_root"}) @@ Of("short", {"debug"}),
    [server_root |-> {"server_root"}, docroot_cache_key |-> {"server_root"}])
SimpleVhostPatch ==
  Patching({"server_root", "default_host", "document_root", "docroot_cache_key", "debug"},
    [server_root |-> {"server_root", "docroot_cache_key"}], {"default_host", "document_root",
    "debug"})
SsiDefaults ==
  Plain(Of("vlist", {"ssi_extension"}) @@ Of("string", {"content_type"}) @@ Of("boolean",
    {"conditional_requests", "ssi_exec"}) @@ Of("short", {"ssi_recursion_max"}))
SsiPatch ==
  Own({"ssi_extension", "content_type", "conditional_requests", "ssi_exec", "ssi_recursion_max"})
StaticfileDefaults ==
  Plain(Of("vlist", {"exclude_ext"}) @@ Of("boolean", {"etags_used", "disable_pathinfo"}))
StaticfilePatch == Own({"exclude_ext", "etags_used", "disable_pathinfo"})
StatusDefaults ==
  Plain(Of("string", {"status_url", "config_url", "statistics_url"}) @@ Of("boolean", {"sort"}))
StatusPatch == Own({"status_url", "config_url", "sort", "statistics_url"})
TriggerB4DlDefaults ==
  Making(Of("string", {"db_filename", "trigger_url", "download_url", "deny_url", "mc_namespace"})
    @@ Of("short", {"trigger_timeout"}) @@ Of("vlist", {"mc_hosts"}) @@ Of("boolean", {"debug"}),
    [download_regex |-> {"download_url"}, trigger_regex |-> {"trigger_url"}, db |->
    {"db_filename"}, memc |-> {"mc_hosts"}])
TriggerB4DlPatch ==
  Patching({"db", "download_regex", "trigger_regex", "trigger_timeout", "deny_url",
    "mc_namespace", "debug", "memc"}, [download_url |-> {"download_regex"}, trigger_url |->
    {"trigger_regex"}, db_filename |-> {"db"}, mc_hosts |-> {"memc"}], {"trigger_timeout",
    "debug", "deny_url", "mc_namespace"})
UploadprogressDefaults == Plain(Of("string", {"progress_url"}))
UploadprogressPatch == Own({"progress_url"})
UserdirDefaults ==
  Plain(Of("string", {"path", "basepath"}) @@ Of("vlist", {"exclude_user", "include_user"}) @@
    Of("boolean", {"letterhomes", "active"}))
UserdirPatch == Own({"path", "exclude_user", "include_user", "basepath", "letterhomes", "active"})
UsertrackDefaults ==
  Plain(Of("string", {"cookie_name", "cookie_domain", "cookie_attrs"}) @@ Of("int",
    {"cookie_max_age"}))
UsertrackPatch == Own({"cookie_name", "cookie_attrs", "cookie_domain", "cookie_max_age"})
VhostdbDefaults ==
  Making(Of("choice", {"vhostdb_backend_conf"}), [vhostdb_backend |-> {"vhostdb_backend_conf"}])
VhostdbPatch == Patching({"vhostdb_backend"}, [vhostdb_backend_conf |-> {"vhostdb_backend"}], {})
VhostdbDbiDefaults == Making(Of("kvany", {"options"}), [vdata |-> {"options"}])
VhostdbDbiPatch == Patching({"vdata"}, [options |-> {"vdata"}], {})
VhostdbLdapDefaults == Making(Of("kvstring", {"options"}), [vdata |-> {"options"}])
VhostdbLdapPatch == Patching({"vdata"}, [options |-> {"vdata"}], {})
VhostdbMysqlDefaults == Making(Of("kvstring", {"options"}), [vdata |-> {"options"}])
VhostdbMysqlPatch == Patching({"vdata"}, [options |-> {"vdata"}], {})
VhostdbPgsqlDefaults == Making(Of("kvstring", {"options"}), [vdata |-> {"options"}])
VhostdbPgsqlPatch == Patching({"vdata"}, [options |-> {"vdata"}], {})
WebdavDefaults ==
  Making(Of("boolean", {"enabled", "is_readonly", "log_xml"}) @@ Of("string", {"sqlite_db_name"}),
    [sql |-> {"sqlite_db_name"}])
WebdavPatch ==
  Patching({"enabled", "is_readonly", "log_xml", "sql"}, [sqlite_db_name |-> {"sql"}], {"enabled",
    "is_readonly", "log_xml"})
WstunnelDefaults ==
  Making(Of("kvarray", {"server"}) @@ Of("short", {"debug", "ping_interval"}) @@ Of("choice",
    {"balance"}) @@ Of("array", {"ext_mapping"}) @@ Of("string", {"frame_type"}) @@ Of("vlist",
    {"origins"}), [exts |-> {"server"}])
WstunnelPatch ==
  Patching({"exts", "debug", "balance", "ext_mapping", "frame_type", "origins", "ping_interval"},
    [server |-> {"exts"}], {"debug", "balance", "ext_mapping", "frame_type", "origins",
    "ping_interval"})

-----------------------------------------------------------------------------
Tables ==
  [core |-> [of |-> CoreDefaults, patch |-> CorePatch],
   openssl |-> [of |-> OpensslDefaults, patch |-> OpensslPatch],
   access |-> [of |-> AccessDefaults, patch |-> AccessPatch],
   accesslog |-> [of |-> AccesslogDefaults, patch |-> AccesslogPatch],
   alias |-> [of |-> AliasDefaults, patch |-> AliasPatch],
   auth |-> [of |-> AuthDefaults, patch |-> AuthPatch],
   authn_file |-> [of |-> AuthnFileDefaults, patch |-> AuthnFilePatch],
   authn_gssapi |-> [of |-> AuthnGssapiDefaults, patch |-> AuthnGssapiPatch],
   authn_ldap |-> [of |-> AuthnLdapDefaults, patch |-> AuthnLdapPatch],
   authn_mysql |-> [of |-> AuthnMysqlDefaults, patch |-> AuthnMysqlPatch],
   authn_sasl |-> [of |-> AuthnSaslDefaults, patch |-> AuthnSaslPatch],
   cgi |-> [of |-> CgiDefaults, patch |-> CgiPatch],
   cml |-> [of |-> CmlDefaults, patch |-> CmlPatch],
   compress |-> [of |-> CompressDefaults, patch |-> CompressPatch],
   deflate |-> [of |-> DeflateDefaults, patch |-> DeflatePatch],
   dirlisting |-> [of |-> DirlistingDefaults, patch |-> DirlistingPatch],
   evasive |-> [of |-> EvasiveDefaults, patch |-> EvasivePatch],
   evhost |-> [of |-> EvhostDefaults, patch |-> EvhostPatch],
   expire |-> [of |-> ExpireDefaults, patch |-> ExpirePatch],
   extforward |-> [of |-> ExtforwardDefaults, patch |-> ExtforwardPatch],
   fastcgi |-> [of |-> FastcgiDefaults, patch |-> FastcgiPatch],
   flv_streaming |-> [of |-> FlvStreamingDefaults, patch |-> FlvStreamingPatch],
   geoip |-> [of |-> GeoipDefaults, patch |-> GeoipPatch],
   indexfile |-> [of |-> IndexfileDefaults, patch |-> IndexfilePatch],
   magnet |-> [of |-> MagnetDefaults, patch |-> MagnetPatch],
   mysql_vhost |-> [of |-> MysqlVhostDefaults, patch |-> MysqlVhostPatch],
   proxy |-> [of |-> ProxyDefaults, patch |-> ProxyPatch],
   redirect |-> [of |-> RedirectDefaults, patch |-> RedirectPatch],
   rewrite |-> [of |-> RewriteDefaults, patch |-> RewritePatch],
   rrdtool |-> [of |-> RrdtoolDefaults, patch |-> RrdtoolPatch],
   scgi |-> [of |-> ScgiDefaults, patch |-> ScgiPatch],
   secdownload |-> [of |-> SecdownloadDefaults, patch |-> SecdownloadPatch],
   setenv |-> [of |-> SetenvDefaults, patch |-> SetenvPatch],
   simple_vhost |-> [of |-> SimpleVhostDefaults, patch |-> SimpleVhostPatch],
   ssi |-> [of |-> SsiDefaults, patch |-> SsiPatch],
   staticfile |-> [of |-> StaticfileDefaults, patch |-> StaticfilePatch],
   status |-> [of |-> StatusDefaults, patch |-> StatusPatch],
   trigger_b4_dl |-> [of |-> TriggerB4DlDefaults, patch |-> TriggerB4DlPatch],
   uploadprogress |-> [of |-> UploadprogressDefaults, patch |-> UploadprogressPatch],
   userdir |-> [of |-> UserdirDefaults, patch |-> UserdirPatch],
   usertrack |-> [of |-> UsertrackDefaults, patch |-> UsertrackPatch],
   vhostdb |-> [of |-> VhostdbDefaults, patch |-> VhostdbPatch],
   vhostdb_dbi |-> [of |-> VhostdbDbiDefaults, patch |-> VhostdbDbiPatch],
   vhostdb_ldap |-> [of |-> VhostdbLdapDefaults, patch |-> VhostdbLdapPatch],
   vhostdb_mysql |-> [of |-> VhostdbMysqlDefaults, patch |-> VhostdbMysqlPatch],
   vhostdb_pgsql |-> [of |-> VhostdbPgsqlDefaults, patch |-> VhostdbPgsqlPatch],
   webdav |-> [of |-> WebdavDefaults, patch |-> WebdavPatch],
   wstunnel |-> [of |-> WstunnelDefaults, patch |-> WstunnelPatch]]
=============================================================================
