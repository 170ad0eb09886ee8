----------------------------- MODULE AgentPages -----------------------------
(***************************************************************************)
(* The pages of approvals, notifications and chat, and those of the agent: *)
(* tasks, schedules, skills, tools and its configuration.                  *)
(***************************************************************************)
EXTENDS Endpoints

------------------------------------------------------------------------------
(* u/approvals: the selection is a set of proposals of the list.           *)

fetchProposals     == Loads({ApprovalProposals}, {"brand", "batch"})
handleUpdate       == Patching(Does(ProposalPatch, {}), {"list"})
handleSingleApprove == Patching(Does(ProposalsBatchAction, {"list"}), {"list"})
handleSingleReject == Patching(Does(ProposalsBatchAction, {"list"}), {"list"})
BatchOf(op)        == Closing(Requiring(op, {"selected"}), {"selected"})
handleBatchApprove == BatchOf(Patching(Does(ProposalsBatchAction, {"list"}), {"list"}))
handleBatchReject  == BatchOf(Patching(Does(ProposalsBatchAction, {"list"}), {"list"}))
(* The classification is set in the list, then saved one by one.           *)
handleBatchSetClassification ==
    Requiring(Early(Patching(Does(ProposalPatch, {}), {"list"})), {"selected"})

ApprovalList       == Section({"list"}, {})
ApprovalRow        == Section({"list"}, {"approve", "reject"})
ApprovalDetail     == Section({"list"}, {"update"})
BatchToolbar       == Section({}, {"approveBatch", "rejectBatch", "classify"})

ApprovalsPage ==
    [Screen([list |-> fetchProposals],
            [update |-> handleUpdate, approve |-> handleSingleApprove,
             reject |-> handleSingleReject, approveBatch |-> handleBatchApprove,
             rejectBatch |-> handleBatchReject, classify |-> handleBatchSetClassification],
            {ApprovalList, ApprovalRow, ApprovalDetail, BatchToolbar})
     EXCEPT !.options = {<<"selected", "brand">>}]

------------------------------------------------------------------------------
(* notifications, the bell of the header and u/notifications: the list is  *)
(* read once; an item changes before, or whatever came of, the request.    *)

loadNotifications  == Keeping(Loads({NotificationsRoute}, {}))
markRead           == Early(Patching(Does(NotificationRead, {}), {"list"}))
(* The page takes the item from the list and marks it read only.           *)
dismissOnPage      == Early(Patching(Does(NotificationRead, {}), {"list"}))
NotificationTable  == Section({"list"}, {"read", "dismiss"})

NotificationsPage ==
    Screen([list |-> loadNotifications], [read |-> markRead, dismiss |-> dismissOnPage],
           {NotificationTable})

loadBell           == Keeping(Loads({NotificationsRoute}, {}))
handleItem         == Early(Patching(Does(NotificationRead, {}), {"list"}))
handleDismiss      == Early(Patching(Does(NotificationDismiss, {}), {"list"}))
handleReadAll      == Early(Patching(Does(NotificationsReadAll, {}), {"list"}))
BellMenu           == Section({"list"}, {"read", "dismiss", "readAll"})

NotificationBell ==
    Screen([list |-> loadBell],
           [read |-> handleItem, dismiss |-> handleDismiss, readAll |-> handleReadAll],
           {BellMenu})

fetchTaskNotices   == Clearing(Given({AgentTasks}, {}))
TaskNotices        == Section({"tasks"}, {})
TaskNoticesPage    == Screen([tasks |-> fetchTaskNotices], NoOps, {TaskNotices})

------------------------------------------------------------------------------
(* The chat drawer: opening it loads what the server kept; a message is    *)
(* shown before it is sent.                                                *)

loadChat           == Keeping(Needing(Asks({ChatHistory}, {}, {"open"}), {"open"}))
sendChat           == Requiring(Early(Patching(Does(ChatSend, {}), {"messages"})), {"open"})
ChatWindow         == Section({"messages"}, {"send"})
ChatWidget         == Screen([messages |-> loadChat], [send |-> sendChat], {ChatWindow})

------------------------------------------------------------------------------
(* u/admin/tasks, tasks/[id] and cron                                      *)

(* The filters by status, type and user are one input.                     *)
(* Its error is never taken back.                                          *)
fetchTasks_Lasting == Polled(Lasting(Loads({AgentTasks}, {"filters"})))
fetchTasks         == Polled(Loads({AgentTasks}, {"filters"}))
cancelTask         == Does(TaskAction, {"tasks"})
retryTask          == Does(TaskAction, {"tasks"})
submitEnqueue      == Does(TaskEnqueue, {"tasks"})
TaskTable          == Section({"tasks"}, {"cancel", "retry", "enqueue"})

TasksPage ==
    Screen([tasks |-> fetchTasks],
           [cancel |-> cancelTask, retry |-> retryTask, enqueue |-> submitEnqueue],
           {TaskTable})

(* The page of one task returns its error in place of everything else, and *)
(* no later poll takes it back.                                            *)
fetchTask          == Polled(Lasting(Loads({AgentTask}, {"id"})))
cancelThisTask     == Does(TaskAction, {"task"})
TaskView           == Section({"task"}, {"cancel"})
TaskDetailPage     == Screen([task |-> fetchTask], [cancel |-> cancelThisTask], {TaskView})

(* The edited schedules are displayed and posted as a whole.               *)
fetchEntries       == Loads({AgentCron}, {})
commitSchedule     == Early(Patching(Does(CronSave, {}), {"entries"}))
commitMetadata     == Early(Patching(Does(CronSave, {}), {"entries"}))
CronTable          == Section({"entries"}, {"schedule", "metadata"})
CronPage ==
    Screen([entries |-> fetchEntries],
           [schedule |-> commitSchedule, metadata |-> commitMetadata], {CronTable})

------------------------------------------------------------------------------
(* u/admin/skills, skills/[name], tools, agent-config and mcp-status       *)

initialSkills      == Frozen({AgentSkills}, {})
deleteSkill        == Patching(Does(SkillDelete, {}), {"skills"})
(* Reads the text of the skill, changes its flag and writes it back.       *)
toggleSkill        == Patching(Does(SkillSave, {}), {"skills"})
newSkill           == Renewing(SkillCreate, {"skills", "body"})
viewSkill          == Needing(Loads({AgentSkill}, {"skill"}), {"skill"})
SkillTable         == Section({"skills"}, {"new", "delete", "toggle"})
SkillViewer        == Section({"body"}, {})

SkillsPage ==
    Screen([skills |-> initialSkills, body |-> viewSkill],
           [new |-> newSkill, delete |-> deleteSkill, toggle |-> toggleSkill],
           {SkillTable, SkillViewer})

initialSkill       == Frozen({AgentSkill}, {})
saveSkill          == Patching(Does(SkillSave, {}), {"raw"})
SkillForm          == Section({"raw"}, {"save"})
SkillPage          == Screen([raw |-> initialSkill], [save |-> saveSkill], {SkillForm})

initialTools       == Frozen({AgentTools}, {})
toggleTool         == Patching(Does(ToolSwitch, {}), {"tools"})
ToolTable          == Section({"tools"}, {"toggle"})
ToolsPage          == Screen([tools |-> initialTools], [toggle |-> toggleTool], {ToolTable})

(* The fields of the editor are copied at the start; saving and resetting  *)
(* load the page anew. The preview draws on the tools.                     *)
editorFields       == Frozen({AgentConfig}, {})
previewTools       == Clearing(Loads({AgentTools}, {}))
saveConfig         == Renewing(AgentConfigSave, {"fields", "tools"})
resetConfig        == Renewing(AgentConfigReset, {"fields", "tools"})
AgentConfigForm    == Section({"fields"}, {"save", "reset"})
AgentConfigPreview == Section({"tools"}, {})

AgentConfigPage ==
    Screen([fields |-> editorFields, tools |-> previewTools],
           [save |-> saveConfig, reset |-> resetConfig],
           {AgentConfigForm, AgentConfigPreview})

fetchStatus        == Polled(Loads({McpStatus}, {}))
McpStatusPanel     == Section({"status"}, {})
McpStatusPage      == Screen([status |-> fetchStatus], NoOps, {McpStatusPanel})

------------------------------------------------------------------------------
AgentScreens ==
    [approvals |-> ApprovalsPage, notifications |-> NotificationsPage,
     bell |-> NotificationBell, taskNotices |-> TaskNoticesPage, chat |-> ChatWidget,
     tasks |-> TasksPage, taskDetail |-> TaskDetailPage, cron |-> CronPage,
     skills |-> SkillsPage, skill |-> SkillPage, tools |-> ToolsPage,
     agentConfig |-> AgentConfigPage, mcpStatus |-> McpStatusPage]
==============================================================================
