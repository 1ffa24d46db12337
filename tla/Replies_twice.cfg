SPECIFICATION RepliesSpec
CONSTANTS
  ann = ann
  ben = ben
  dee = dee
  MaxReply = 4
  Accounts = {ann, ben, dee}
  OurAccounts = {ann, ben}
  AuthorOf <- MCAuthorOf
  ParentOf <- MCParentOf
INVARIANT RemovalUndoesOneReply
CHECK_DEADLOCK FALSE
