CONSTANTS
    admin = admin
    cashier = cashier
    guest = guest
    owner = owner
    till = till
    extra = extra
    manage = manage
    sell = sell
    audit = audit
    Users = {admin, cashier, guest}
    Roles = {owner, till, extra}
    Permissions = {manage, sell, audit}
    Workers = {w1, w2}
    Requests <- MCRequests
    DefaultUsers <- MCDefaultUsers
    DefaultSupers = {admin}
    RolePermissions <- MCRolePermissions
    RoleOf <- MCRoleOf
    MaxCrashes = 2
SPECIFICATION Spec
CHECK_DEADLOCK FALSE
INVARIANTS AnsweredIsBound AuditedOnce
PROPERTIES ImplementsProvisioning EventuallyServing
