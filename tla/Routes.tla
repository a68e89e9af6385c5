------------------------------- MODULE Routes -------------------------------
(***************************************************************************)
(* Who may call what: the endpoints of the API, router by router, and the  *)
(* dependency that guards each of them (core/http/deps.py).                *)
(*                                                                         *)
(* A route is an area (the router), the name of its function, whether it   *)
(* is a read (GET) or a write, and its guard: open to everyone, to a guest *)
(* or a user (get_optional_user), to any user (get_current_user), to roles *)
(* (require_role) or to staff with a permission (require_permission).      *)
(* Local marks the routes that require_catalog_writable closes while the   *)
(* catalogue comes from a POS hub.  What the handlers do is in the other   *)
(* modules, or left out.                                                   *)
(***************************************************************************)

Guard(k, rs, p) == [kind |-> k, roles |-> rs, perm |-> p, local |-> FALSE]
Open      == Guard("open", {}, "")
Guest     == Guard("guest", {}, "")
User      == Guard("user", {}, "")
Role(rs)  == Guard("role", rs, "")
Perm(p)   == Guard("permission", {"staff", "admin"}, p)
Local(g)  == [g EXCEPT !.local = TRUE]
Admin     == Role({"admin"})
Staff     == Role({"staff", "admin"})
Worker    == Role({"staff", "admin", "driver"})
Driver    == Role({"driver"})
Customer  == Role({"customer"})
Owner     == Role({"admin", "super-admin"})
SuperAdmin == Role({"super-admin"})

Reads(a, g, ops)  == {[area |-> a, op |-> o, write |-> FALSE, guard |-> g] : o \in ops}
Writes(a, g, ops) == {[area |-> a, op |-> o, write |-> TRUE, guard |-> g] : o \in ops}

-----------------------------------------------------------------------------

(* admin/customers/router.py *)
Customers1 ==
    Reads("customers", Admin, {"list_customers", "export_customers_csv",
            "message_templates", "list_admin_audit_logs",
            "get_customer_detail", "get_customer_order_detail"})
    \cup Writes("customers", Admin, {"send_bulk_message"})
Customers2 ==
    Reads("customers", Admin, {"list_customer_communications",
            "privacy_export"})
    \cup Writes("customers", Admin, {"send_customer_message",
            "privacy_delete", "anonymize_customer"})

(* admin/dashboard/router.py *)
Dashboard1 ==
    Reads("dashboard", Admin, {"daily_stats", "monthly_stats",
            "stock_stats", "stats_summary", "group_overview"})
    \cup Reads("dashboard", Staff, {"live_stats"})
Dashboard2 ==
    Reads("dashboard", Admin, {"top_products"})

(* admin/security/router.py *)
SecurityDesk1 ==
    Reads("security", SuperAdmin, {"list_ws_alerts"})
    \cup Writes("security", SuperAdmin, {"resolve_ws_alert", "ban_ip"})
SecurityDesk2 ==
    Writes("security", SuperAdmin, {"unban_ip"})
    \cup Reads("security", Admin, {"list_login_events"})
    \cup Reads("security", SuperAdmin, {"list_banned_ips"})

(* admin/superadmin/router.py *)
Support1 ==
    Writes("support", SuperAdmin, {"impersonate"})
    \cup Writes("support", User, {"end_impersonation"})
Support2 ==
    Reads("support", SuperAdmin, {"impersonation_log",
            "cross_tenant_users"})

(* admin/tenants/lifecycle_router.py *)
TenantLifecycle1 ==
    Reads("tenants", SuperAdmin, {"list_tenants"})
    \cup Writes("tenants", SuperAdmin, {"create_tenant",
            "update_tenant_plan"})
TenantLifecycle2 ==
    Writes("tenants", SuperAdmin, {"suspend_tenant"})
TenantLifecycle3 ==
    Writes("tenants", SuperAdmin, {"unsuspend_tenant"})

(* admin/tenants/router.py *)
TenantDesk1 ==
    Reads("tenant", Open, {"get_tenant_branding", "get_tenant_status",
            "get_next_opening", "list_business_hours"})
TenantDesk2 ==
    Writes("tenant", Admin, {"patch_tenant_branding", "patch_config",
            "patch_print_config"})
    \cup Reads("tenant", Staff, {"list_establishments"})
    \cup Reads("tenant", Admin, {"get_config"})
    \cup Reads("tenant", Perm("print:read"), {"get_print_config"})
TenantDesk3 ==
    Writes("tenant", Admin, {"toggle_closure", "schedule_closure",
            "replace_business_hours"})
    \cup Reads("tenant", Admin, {"get_audit_log"})
TenantDesk4 ==
    Writes("tenant", Admin, {"delete_business_hours", "create_closure",
            "delete_closure"})
    \cup Reads("tenant", Admin, {"list_closures"})

(* admin/users/router.py *)
StaffAccounts ==
    Reads("users", Admin, {"list_users"})
    \cup Writes("users", Admin, {"create_user", "update_user_permissions",
            "deactivate_user", "reactivate_user", "admin_reset_password"})

(* auth/router.py *)
AuthRoutes1 ==
    Writes("auth", Open, {"register", "login", "refresh",
            "forgot_password", "reset_password"})
    \cup Writes("auth", Owner, {"mfa_setup", "mfa_confirm",
            "mfa_regenerate_backup_codes"})
    \cup Writes("auth", User, {"logout", "resend_verification"})
    \cup Reads("auth", Open, {"verify_email"})
AuthRoutes2 ==
    Writes("auth", User, {"change_password", "revoke_session",
            "revoke_all_sessions"})
    \cup Reads("auth", User, {"list_sessions", "me"})

(* catalog/allergen/allergen_router.py *)
AllergenRoutes1 ==
    Reads("allergens", Open, {"list_allergens", "get_product_allergens"})
    \cup Writes("allergens", Local(Admin), {"create_allergen",
            "patch_product_allergen"})
    \cup Reads("allergens", Staff, {"get_ingredient_allergens"})
    \cup Writes("allergens", Local(Staff), {"set_ingredient_allergens"})
AllergenRoutes2 ==
    Writes("allergens", Local(Staff), {"recompute_product_allergens"})
    \cup Reads("allergens", Admin, {"get_product_allergen_audit"})
    \cup Reads("allergens", Open, {"list_dietary_tags"})
    \cup Writes("allergens", Local(Admin), {"set_product_dietary_tags"})

(* catalog/image/image_router.py *)
ImageRoutes1 ==
    Writes("images", Local(Staff), {"upload_image", "delete_image"})
    \cup Reads("images", Open, {"list_images"})
ImageRoutes2 ==
    Writes("images", Local(Staff), {"set_primary", "reorder_images"})

(* catalog/router.py *)
CatalogRoutes1 ==
    Reads("catalog", Perm("catalog:read"), {"admin_list_menus",
            "admin_get_menu"})
    \cup Writes("catalog", Perm("catalog:write"), {"admin_create_menu",
            "admin_update_menu", "admin_delete_menu",
            "admin_create_menu_group", "admin_update_menu_group",
            "admin_delete_menu_group"})
CatalogRoutes2 ==
    Writes("catalog", Perm("catalog:write"), {
            "admin_add_menu_group_item", "admin_update_menu_group_item",
            "admin_delete_menu_group_item"})
    \cup Reads("catalog", Open, {"public_menus", "public_menu_detail",
            "categories"})
    \cup Writes("catalog", Local(Admin), {"create_category",
            "update_category"})
CatalogRoutes3 ==
    Reads("catalog", Open, {"products_by_category", "products",
            "product_suggestions", "featured_products"})
CatalogRoutes4 ==
    Reads("catalog", Open, {"product_detail"})
    \cup Writes("catalog", Admin, {"create_product", "update_product",
            "delete_product", "set_product_override",
            "delete_product_override"})
    \cup Writes("catalog", Local(Perm("catalog:availability")), {
            "set_product_availability_override"})
CatalogRoutes5 ==
    Reads("catalog", Perm("catalog:read"), {
            "product_availability_history", "list_variants",
            "list_product_extras"})
    \cup Writes("catalog", Local(Perm("catalog:write")), {"create_variant",
            "update_variant", "delete_variant", "link_extra", "unlink_extra"})
    \cup Reads("catalog", Open, {"extras"})
    \cup Writes("catalog", Local(Admin), {"create_extra", "update_extra"})
CatalogRoutes6 ==
    Writes("catalog", Local(Admin), {"delete_extra",
            "add_recommendation", "update_recommendation",
            "delete_recommendation", "import_csv_confirm"})
    \cup Reads("catalog", Perm("catalog:read"), {"list_recommendations",
            "catalog_completeness"})
    \cup Writes("catalog", Admin, {"import_csv_dry_run"})
    \cup Reads("catalog", Admin, {"export_csv", "price_audit"})
CatalogRoutes7 ==
    Reads("catalog", SuperAdmin, {"super_admin_products",
            "super_admin_product_detail"})

(* customer/router.py *)
CustomerArea ==
    Writes("customer", Open, {"register", "start_phone_auth",
            "register_phone", "verify_phone_auth"})
    \cup Reads("customer", Customer, {"get_me", "export_me"})
    \cup Writes("customer", Customer, {"update_me", "delete_me"})

(* delivery/dispatch_router.py *)
DispatchRoutes1 ==
    Reads("dispatch", Perm("orders:read"), {"list_drivers",
            "dispatch_board"})
    \cup Writes("dispatch", Admin, {"create_driver", "update_driver"})
    \cup Writes("dispatch", Perm("orders:write"), {"assign", "unassign"})
    \cup Reads("dispatch", Driver, {"driver_me", "driver_deliveries"})
    \cup Writes("dispatch", Driver, {"driver_depart", "driver_arrived"})
DispatchRoutes2 ==
    Writes("dispatch", Driver, {"driver_delivered", "driver_failed",
            "grant_location_consent", "withdraw_location_consent"})
    \cup Reads("dispatch", Driver, {"driver_recap"})
    \cup Reads("dispatch", Perm("orders:read"), {"list_failures"})
    \cup Writes("dispatch", Admin, {"resolve_failure",
            "deliver_without_code"})
DispatchRoutes3 ==
    Writes("dispatch", Driver, {"driver_location", "driver_claim",
            "driver_release"})
    \cup Reads("dispatch", Perm("orders:read"), {"live_drivers",
            "get_dispatch_settings"})
    \cup Reads("dispatch", Driver, {"driver_available"})
    \cup Writes("dispatch", Admin, {"put_dispatch_settings"})

(* delivery/router.py *)
ZoneRoutes1 ==
    Reads("delivery", Open, {"list_zones", "get_availability"})
    \cup Reads("delivery", Staff, {"list_zones_for_management",
            "get_settings"})
    \cup Writes("delivery", Admin, {"preview_zone", "create_zone",
            "update_zone", "set_zone_active", "deactivate_zone",
            "replace_zone_rules", "set_establishment_location",
            "update_settings"})
ZoneRoutes2 ==
    Writes("delivery", User, {"check_address"})
    \cup Reads("delivery", User, {"geocode", "reverse_geocode"})

(* favorites/router.py *)
FavoriteRoutes ==
    Writes("favorites", User, {"add_favorite", "remove_favorite"})
    \cup Reads("favorites", User, {"list_favorites"})

(* haccp/export_router.py *)
HaccpExports ==
    Reads("haccp_export", Admin, {"export_pdf", "export_csv"})

(* haccp/router.py *)
HaccpRoutes1 ==
    Reads("haccp", User, {"get_today_status", "get_today_sessions",
            "list_equipment"})
    \cup Writes("haccp", User, {"create_session"})
    \cup Writes("haccp", Admin, {"complete_session", "create_equipment"})
HaccpRoutes2 ==
    Writes("haccp", Admin, {"update_equipment"})
    \cup Writes("haccp", User, {"log_temperature", "log_dlc",
            "create_standalone_dlc"})
    \cup Reads("haccp", User, {"list_temperatures", "list_dlc",
            "list_all_dlc"})
HaccpRoutes3 ==
    Writes("haccp", Admin, {"update_dlc", "delete_dlc",
            "create_cleaning_task", "update_cleaning_task"})
    \cup Reads("haccp", User, {"list_cleaning_tasks", "list_cleaning_logs",
            "list_non_conformities"})
    \cup Writes("haccp", User, {"log_cleaning", "create_non_conformity"})
HaccpRoutes4 ==
    Writes("haccp", Admin, {"update_non_conformity", "create_training"})
    \cup Writes("haccp", User, {"create_reception", "create_cooling",
            "update_cooling"})
    \cup Reads("haccp", User, {"list_reception", "list_cooling",
            "list_training"})
HaccpRoutes5 ==
    Writes("haccp", User, {"log_oil"})

(* haccp/stats_router.py *)
HaccpStats ==
    Reads("haccp_stats", Perm("haccp:read"), {"get_haccp_stats"})

(* haccp/strict_router.py *)
StrictHaccpRoutes ==
    Writes("haccp_strict", Perm("haccp:manage"), {"grant_scope",
            "revoke_scope"})
    \cup Reads("haccp_strict", Perm("haccp:read"), {"status", "inspect"})
    \cup Writes("haccp_strict", Perm("haccp:write"), {"start", "evidence"})
    \cup Writes("haccp_strict", Perm("haccp:validate"), {"complete",
            "prepare", "regularize", "reopen"})

(* hr/router.py *)
HrRoutes1 ==
    Writes("hr", Admin, {"create_employee", "update_employee",
            "create_shift_endpoint", "update_shift_endpoint",
            "resolve_alert_endpoint"})
    \cup Reads("hr", Admin, {"list_employees", "list_shifts_endpoint",
            "list_alerts_endpoint"})
    \cup Reads("hr", Worker, {"get_my_employee_profile",
            "list_my_shifts_endpoint"})
    \cup Writes("hr", Worker, {"clock_in_endpoint"})
HrRoutes2 ==
    Reads("hr", Admin, {"export_shifts_endpoint",
            "export_time_clock_endpoint"})
    \cup Writes("hr", Worker, {"clock_out_endpoint", "start_break_endpoint",
            "end_break_endpoint", "report_late_endpoint"})
HrRoutes3 ==
    Reads("hr", Admin, {"list_time_clock_entries_endpoint"})
    \cup Reads("hr", Worker, {"list_my_time_clock_entries_endpoint"})
    \cup Writes("hr", Admin, {"correct_time_clock_entry_endpoint"})

(* kds/router.py; the two routes of a paired tablet ask besides for its    *)
(* X-KDS-Session (resolve_remote_session, see Devices).                    *)
KdsRoutes ==
    Reads("kds", Perm("orders:preparation"), {"list_screens",
            "get_remote_session"})
    \cup Writes("kds", Admin, {"create_screen", "update_screen",
            "revoke_screen_sessions"})
    \cup Writes("kds", Perm("orders:preparation"), {"create_pairing_code",
            "resolve_pairing_payload", "pair_remote",
            "revoke_current_remote_session"})

(* loyalty/account/router.py *)
LoyaltyRoutes1 ==
    Reads("loyalty", User, {"my_loyalty", "my_transactions",
            "my_expiring_points"})
    \cup Writes("loyalty", User, {"create_my_loyalty_qr_token", "redeem",
            "create_checkout_reservation"})
    \cup Reads("loyalty", Staff, {"staff_search_customers",
            "staff_customer_wallet", "get_user_loyalty",
            "get_user_transactions"})
    \cup Writes("loyalty", Staff, {"staff_create_customer",
            "staff_identify_qr"})
    \cup Writes("loyalty", Admin, {"add_points"})
LoyaltyRoutes2 ==
    Writes("loyalty", User, {"confirm_checkout_reservation",
            "cancel_checkout_reservation"})

(* loyalty/config/router.py *)
ProgrammeRoutes1 ==
    Reads("programme", Admin, {"get_config", "list_rules"})
    \cup Writes("programme", Admin, {"update_config", "create_rule",
            "update_rule", "delete_rule"})
    \cup Reads("programme", User, {"list_rewards"})
ProgrammeRoutes2 ==
    Writes("programme", Admin, {"create_reward", "update_reward",
            "delete_reward"})
    \cup Writes("programme", User, {"redeem_reward"})
    \cup Reads("programme", Admin, {"loyalty_stats"})
    \cup Reads("programme", User, {"preview_points"})

(* notifications/router.py *)
PushDevices ==
    Writes("devices", User, {"register_device", "delete_device"})
    \cup Reads("devices", User, {"list_devices"})

(* orders/router.py *)
OrderRoutes1 ==
    Writes("orders", Guest, {"create_order"})
    \cup Writes("orders", Perm("orders:manual"), {"create_manual_order"})
    \cup Reads("orders", User, {"list_my_orders", "get_delivery_code",
            "get_driver_location"})
    \cup Reads("orders", Perm("orders:read"), {"list_orders"})
    \cup Reads("orders", Admin, {"export_orders_csv"})
OrderRoutes2 ==
    Reads("orders", User, {"get_order_detail"})
    \cup Writes("orders", User, {"cancel_my_order", "reorder"})
    \cup Reads("orders", Perm("orders:read"), {"get_receipt"})
    \cup Writes("orders", Perm("orders:write"), {"update_status"})
    \cup Writes("orders", Perm("orders:preparation"), {
            "update_item_preparation", "update_station_preparation"})

(* payments/connect_router.py *)
StripeConnect ==
    Writes("connect", Owner, {"initiate_onboarding"})
    \cup Reads("connect", Owner, {"get_status", "get_dashboard"})

(* payments/router.py *)
PaymentRoutes1 ==
    Writes("payments", User, {"create_intent", "confirm",
            "confirm_local_test_payment"})
    \cup Writes("payments", Open, {"webhook"})
    \cup Reads("payments", Perm("payments:read"), {"payment_summary",
            "list_payments"})
PaymentRoutes2 ==
    Reads("payments", Admin, {"export_payments_csv"})
    \cup Writes("payments", Perm("payments:terminal"), {
            "terminal_connection_token", "terminal_payment_intent",
            "process_terminal_reader", "cancel_terminal_reader"})
    \cup Reads("payments", Perm("payments:terminal"), {"terminal_readers"})
    \cup Reads("payments", Open, {"payment_link_done"})
    \cup Reads("payments", User, {"guarantee_terms"})
    \cup Writes("payments", User, {"create_guarantee_intent"})
PaymentRoutes3 ==
    Writes("payments", Staff, {"release_guarantee",
            "guarantee_cash_collected", "create_payment_link"})
    \cup Writes("payments", Admin, {"capture_guarantee", "create_refund"})
    \cup Reads("payments", User, {"get_payment", "list_refunds"})

(* pos/router.py *)
PosRoutes1 ==
    Writes("pos", Owner, {"start_connection", "disconnect_connection"})
    \cup Reads("pos", Open, {"oauth_callback"})
PosRoutes2 ==
    Writes("pos", Open, {"catalog_webhook"})

(* promotions/router.py *)
PromotionRoutes ==
    Reads("promotions", Open, {"list_promos"})
    \cup Writes("promotions", User, {"validate"})
    \cup Reads("promotions", SuperAdmin, {"super_admin_stats"})
    \cup Reads("promotions", Staff, {"list_admin_promotions", "get_promo",
            "get_promo_usages"})
    \cup Writes("promotions", Admin, {"bulk_generate", "create_promo",
            "cleanup_expired", "update_promo", "toggle_promo",
            "delete_promo"})

(* stock/router.py *)
StockRoutes1 ==
    Reads("stock", Perm("stock:read"), {"ingredients", "movements",
            "alerts", "dlc_overview", "ingredient_batches",
            "ingredient_usable_stock"})
    \cup Writes("stock", Admin, {"create_ingredient", "patch_ingredient",
            "adjust_ingredient"})
    \cup Writes("stock", Perm("stock:write"), {"supply"})
StockRoutes2 ==
    Writes("stock", Perm("stock:write"), {"create_ingredient_batch",
            "open_ingredient_batch", "start_ingredient_batch_use",
            "discard_ingredient_batch"})
    \cup Writes("stock", Admin, {"patch_ingredient_batch",
            "approve_adjustment_request", "reject_adjustment_request",
            "create_recipe"})
    \cup Writes("stock", Perm("stock:adjustment:create"), {
            "create_adjustment_request"})
    \cup Reads("stock", Admin, {"adjustment_requests"})
StockRoutes3 ==
    Writes("stock", Admin, {"create_variant_recipe",
            "create_extra_recipe", "replace_product_recipe",
            "replace_variant_recipe", "replace_extra_recipe",
            "delete_recipe_line"})
    \cup Reads("stock", Admin, {"missing_recipes", "product_recipe",
            "variant_recipe", "extra_recipe"})
    \cup Reads("stock", Perm("stock:read"), {"availability"})

(* super_admin/router.py *)
PlatformRoutes1 ==
    Writes("platform", Open, {"super_admin_login",
            "super_admin_refresh"})
    \cup Writes("platform", Role({"super-admin", "super-admin-enrollment"}), {
            "super_admin_mfa_setup", "super_admin_mfa_confirm"})
    \cup Writes("platform", User, {"super_admin_logout"})
    \cup Writes("platform", SuperAdmin, {"super_admin_revoke_all_sessions",
            "change_password"})
PlatformRoutes2 ==
    Reads("platform", SuperAdmin, {"tenants_metrics"})
PlatformRoutes3 ==
    Writes("platform", SuperAdmin, {"reset_tenant_user_password"})
PlatformRoutes4 ==
    Reads("platform", SuperAdmin, {"get_tenant_timeline"})

(* include_router: every route of the application (app/main.py). *)
Routes == UNION {
    Customers1, Customers2, Dashboard1, Dashboard2, SecurityDesk1,
    SecurityDesk2, Support1, Support2, TenantLifecycle1,
    TenantLifecycle2, TenantLifecycle3, TenantDesk1, TenantDesk2,
    TenantDesk3, TenantDesk4, StaffAccounts, AuthRoutes1, AuthRoutes2,
    AllergenRoutes1, AllergenRoutes2, ImageRoutes1, ImageRoutes2,
    CatalogRoutes1, CatalogRoutes2, CatalogRoutes3, CatalogRoutes4,
    CatalogRoutes5, CatalogRoutes6, CatalogRoutes7, CustomerArea,
    DispatchRoutes1, DispatchRoutes2, DispatchRoutes3, ZoneRoutes1,
    ZoneRoutes2, FavoriteRoutes, HaccpExports, HaccpRoutes1,
    HaccpRoutes2, HaccpRoutes3, HaccpRoutes4, HaccpRoutes5, HaccpStats,
    StrictHaccpRoutes, HrRoutes1, HrRoutes2, HrRoutes3, KdsRoutes,
    LoyaltyRoutes1, LoyaltyRoutes2, ProgrammeRoutes1, ProgrammeRoutes2,
    PushDevices, OrderRoutes1, OrderRoutes2, StripeConnect,
    PaymentRoutes1, PaymentRoutes2, PaymentRoutes3, PosRoutes1,
    PosRoutes2, PromotionRoutes, StockRoutes1, StockRoutes2,
    StockRoutes3, PlatformRoutes1, PlatformRoutes2, PlatformRoutes3,
    PlatformRoutes4}

(* The guard of an endpoint. *)
GuardOf(r) == (CHOOSE x \in Routes : x.area = r[1] /\ x.op = r[2]).guard

-----------------------------------------------------------------------------
(* A caller: its role and permissions as get_current_user hands them on,   *)
(* and whether its token is one of support (impersonation).                *)

(* has_permission: an impersonation token has its own list, an admin needs *)
(* none, a staff account has exactly what its list says.                   *)
has_permission(c, p) == \/ p \in c.perms
                        \/ ~c.imp /\ c.role \in {"admin", "super-admin"}

require_role(c, roles) == ~c.imp /\ c.role \in roles

require_permission(c, g) == /\ c.role \in g.roles \cup {"admin", "super-admin"}
                            /\ has_permission(c, g.perm)

(* What the guard says of a caller that is known. *)
Allows(g, c) ==
    CASE g.kind \in {"open", "guest", "user"} -> TRUE
      [] g.kind = "role"       -> require_role(c, g.roles)
      [] g.kind = "permission" -> require_permission(c, g)

(* core/auth/impersonation.py *)
IMPERSONATION_PERMISSIONS == {"orders:read", "stock:read", "catalog:read",
                              "payments:read", "haccp:read", "print:read"}
=============================================================================
